---- MODULE Spec2Model ----
(***************************************************************************)
(* Rental-ads bot: the ad lifecycle, the moderation workflow (approve,     *)
(* reject, report review) and the new-ad notification fan-out, modelled    *)
(* from services/ad_service.py, services/moderation_service.py,            *)
(* services/notification_service.py, database/models/*.py and              *)
(* bot/handlers/moderation.py.                                             *)
(*                                                                         *)
(* Every handler invocation runs in its own database session               *)
(* (bot/middlewares/database.py).  An operation that is one SQL statement  *)
(* followed by commit is one action.  An operation that loads an ORM       *)
(* object, changes it in memory and commits (approve_ad, reject_ad,        *)
(* review_report) is a session with one action per database round trip:    *)
(* the SELECT, then the flush/commit, then the notifications.              *)
(***************************************************************************)
EXTENDS Integers, Sequences, FiniteSets, TLC

None == "None"

---------------------------------------------------------------------------
(* Bounds of the model *)

MaxAds == 1          \* ids the ads table may allocate
MaxReports == 1      \* ids the reports table may allocate
MaxOps == 6          \* service calls started in one behaviour
NumProcs == 2        \* handler invocations that may be in flight together
MaxSubs == 2         \* rows of the subscriptions table
MaxFeedback == 1     \* ids the feedbacks table may allocate
MaxDelAds == 2       \* ads in the tables delete_ad is tried on
MaxDelRows == 2      \* reports, and feedbacks, in those tables
MaxEvents == 4       \* events that reach DatabaseMiddleware in one behaviour

AdIds == 1..MaxAds
ReportIds == 1..MaxReports
SubIds == 1..MaxSubs
FeedbackIds == 1..MaxFeedback
Procs == 1..NumProcs

Users == {1, 2, 3}
\* the users who place ads, and those who call the owner operations
Owners == {1}
Callers == {1, 2}
\* settings.admin_id_list: the external ids allowed through IsAdminFilter
admin_id_list == {2, 3}

---------------------------------------------------------------------------
(* Enumerations *)

PENDING == "pending"
ACTIVE == "active"
REJECTED == "rejected"
RENTED == "rented"
CLOSED == "closed"
AdStatus == {PENDING, ACTIVE, REJECTED, RENTED, CLOSED}

R_PENDING == "pending"
R_REVIEWED == "reviewed"
R_DISMISSED == "dismissed"
ReportStatus == {R_PENDING, R_REVIEWED, R_DISMISSED}

NoAd == [absent |-> "ad"]
NoReport == [absent |-> "report"]

---------------------------------------------------------------------------
(* Strings are sequences of characters, so that lower() and the Python     *)
(* `in` operator are computed and not assumed.                             *)

LowerChar(c) ==
    CASE c = "D" -> "d"
      [] c = "R" -> "r"
      [] c = "M" -> "m"
      [] OTHER -> c

\* a comparison that leaves the case as it is
lower_as_is(s) == s

lower(s) == [i \in DOMAIN s |-> LowerChar(s[i])]

\* Python: needle in hay
contains(needle, hay) ==
    \E i \in 0..(Len(hay) - Len(needle)) :
        \A j \in 1..Len(needle) : hay[i + j] = needle[j]

\* Optional[str] columns hold a sequence or NoneStr; Optional[Decimal]
\* columns hold a number or NoneNum; enum-like columns hold a token or None.
NoneStr == <<None>>
NoneNum == -1

\* Python truthiness of an Optional[str], of an Optional[Decimal] and of
\* an optional token
truthy_str(x) == x # NoneStr /\ x # <<>>
truthy_num(x) == x # NoneNum /\ x # 0
\* a comparison made whether or not the criterion is set
truthy_tok_always(x) == TRUE

truthy_tok(x) == x # None /\ x # ""

---------------------------------------------------------------------------
(* Subscription.matches_ad *)

\* a match as soon as one criterion holds
matches_ad_any(sub, ad) ==
    \/ /\ ~truthy_str(sub.keywords) /\ ~truthy_tok(sub.category)
       /\ ~truthy_str(sub.location) /\ ~truthy_num(sub.max_price)
    \/ /\ truthy_str(sub.keywords)
       /\ \/ contains(lower(sub.keywords), lower(ad.title))
          \/ contains(lower(sub.keywords), lower(ad.description))
    \/ truthy_tok(sub.category) /\ sub.category = ad.category
    \/ truthy_str(sub.location) /\ contains(lower(sub.location), lower(ad.location))
    \/ truthy_num(sub.max_price) /\ ad.price_per_day <= sub.max_price

matches_ad(sub, ad) ==
    /\ ~(/\ truthy_str(sub.keywords)
         /\ ~contains(lower(sub.keywords), lower(ad.title))
         /\ ~contains(lower(sub.keywords), lower(ad.description)))
    /\ ~(truthy_tok(sub.category) /\ sub.category # ad.category)
    /\ ~(/\ truthy_str(sub.location)
         /\ ~contains(lower(sub.location), lower(ad.location)))
    /\ ~(truthy_num(sub.max_price) /\ ad.price_per_day > sub.max_price)

---------------------------------------------------------------------------
(* Input values *)

T_drill == <<"D", "r">>
D_text == <<"d", "r", "x">>
L_msk == <<"M", "s">>

\* what AdService.create receives besides owner_id
AdInputs ==
    { [title |-> T_drill, description |-> D_text, price_per_day |-> 500,
       location |-> L_msk, category |-> "Tools", contact_info |-> "c1",
       photo_id |-> None] }

\* **fields of AdService.update_ad: a mapping column name -> value
EditInputs ==
    { [price_per_day |-> 400, owner_id |-> 3],
      [views_count |-> 7],
      << >> }

Reasons == {"reason_a"}
ReviewActions == {"approve", "dismiss"}
Comments == {None, "note"}

\* outcome of Bot.send_message: delivered, TelegramForbiddenError or
\* TelegramBadRequest, any other exception
Outcomes == {"ok", "refused", "raise"}

---------------------------------------------------------------------------
(* State *)

VARIABLES
    ads,        \* table ads: [AdIds -> row or NoAd]
    adSeq,      \* last id the ads sequence handed out
    reports,    \* table reports: [ReportIds -> row or NoReport]
    reportSeq,  \* last id the reports sequence handed out
    subs,       \* table subscriptions: [SubIds -> row]
    sess,       \* [Procs -> the handler invocation in flight, or Idle]
    hist,       \* per ad: counts of what has happened to it so far
    lastOp,     \* the call that finished in the last step, with its result
    ops,        \* calls started so far; also the clock of datetime.now()
    users,      \* table users: [Users -> row or NoUser]
    feedback,   \* table feedbacks: [FeedbackIds -> row or NoFeedback]
    evt,        \* the event DatabaseMiddleware looked at last
    search_results, \* FSM data key search_results: [Users -> ad ids]
    today,      \* the calendar day of the server clock
    fsm,        \* FSM context per user: state and the other data keys
    user_last_request,  \* ThrottlingMiddleware.user_last_request
    now         \* time.time(), in tenths of a second

vars == <<ads, adSeq, reports, reportSeq, subs, sess, hist, lastOp, ops,
          users, feedback, evt, search_results, today, fsm, user_last_request, now>>

NoUser == [absent |-> "user"]

\* an FSM context after state.clear(): no state, no data
NoFsm ==
    [state |-> None, sub_keywords |-> NoneStr, sub_category |-> None,
     sub_location |-> NoneStr, report_ad_id |-> NoneNum, report_reason |-> None]

\* the dict ThrottlingMiddleware starts with; get(user_id, 0) reads 0 for
\* an absent key
NoRequests == [u \in Users |-> 0]

\* time.time() when the bot starts: seconds since 1970, far from 0
StartTime == 1000
NoFeedback == [absent |-> "feedback"]
NoEvent == [n |-> -1]

\* the row UserService.get_or_create inserts on a user's first event
UserRow(u) == [is_admin |-> u \in admin_id_list, is_banned |-> FALSE]

Idle == [pc |-> "idle"]

\* approved: approve_ad commits that wrote the ad's status; noteApproved:
\* owner approval notices attempted; fanouts: notify_new_ad runs
NoHist ==
    [approved |-> 0, noteApproved |-> 0, fanouts |-> 0, approved_on |-> NoneNum,
     content |-> [approved |-> FALSE]]

\* what a moderator approves of an ad row
Content(row) ==
    [approved |-> TRUE,
     title |-> row.title, description |-> row.description,
     price_per_day |-> row.price_per_day, location |-> row.location,
     category |-> row.category, contact_info |-> row.contact_info,
     photo_id |-> row.photo_id]

Bump(a, field) == [hist EXCEPT ![a][field] = @ + 1]

\* ghost: one more approval of ad a, on the current day, of the content
\* the row has when the status is written
Approved(a) ==
    [hist EXCEPT ![a].approved = @ + 1, ![a].approved_on = today,
                 ![a].content = Content(ads[a])]

\* rows the subscriptions table may hold: SubscriptionService.create stores
\* any combination of criteria (max_price 0 is stored as NULL), and
\* toggle_subscription clears is_active
NoCriteria(u, active) ==
    [user_id |-> u, keywords |-> NoneStr, category |-> None,
     location |-> NoneStr, max_price |-> NoneNum, is_active |-> active]

SubRows ==
    { NoCriteria(1, TRUE),
      NoCriteria(2, TRUE),
      NoCriteria(3, FALSE),
      [NoCriteria(3, TRUE) EXCEPT !.keywords = <<"D", "R">>,
                                  !.category = "Tools", !.max_price = 500],
      [NoCriteria(2, TRUE) EXCEPT !.max_price = 400],
      [NoCriteria(3, TRUE) EXCEPT !.location = <<"x">>] }

\* the table the lifecycle model runs with: the ad owner's own subscription
\* and other users' subscriptions
SubTable(s) ==
    IF s = 1 THEN NoCriteria(1, TRUE)
    ELSE [NoCriteria(2, TRUE) EXCEPT !.category = "Tools", !.max_price = 500]

Init ==
    /\ ads = [a \in AdIds |-> NoAd]
    /\ adSeq = 0
    /\ reports = [r \in ReportIds |-> NoReport]
    /\ reportSeq = 0
    /\ subs = [s \in SubIds |-> SubTable(s)]
    /\ sess = [p \in Procs |-> Idle]
    /\ hist = [a \in AdIds |-> NoHist]
    /\ lastOp = [op |-> "init"]
    /\ ops = 0
    /\ users = [u \in Users |-> UserRow(u)]
    /\ feedback = [f \in FeedbackIds |-> NoFeedback]
    /\ evt = NoEvent
    /\ search_results = [u \in Users |-> <<>>]
    /\ today = 0
    /\ fsm = [u \in Users |-> NoFsm]
    /\ user_last_request = NoRequests
    /\ now = StartTime

\* every call counts against MaxOps and advances the clock
Tick == ops < MaxOps /\ ops' = ops + 1

\* what a call that is one statement leaves in lastOp: its name, what it
\* returned and, when it took effect, the ad it acted on
Result(op, ok, a) ==
    IF ok THEN [op |-> op, ret |-> TRUE, ad |-> a] ELSE [op |-> op, ret |-> FALSE]

\* handler invocations are interchangeable: a new one takes the first free
\* slot
FreeSlot(p) == sess[p] = Idle /\ \A q \in Procs : q < p => sess[q] # Idle

---------------------------------------------------------------------------
(* AdService: single-statement operations *)

\* AdService.create: INSERT with status PENDING; the sequence never reuses
\* an id
create(u, inp) ==
    /\ Tick
    /\ adSeq < MaxAds
    /\ adSeq' = adSeq + 1
    /\ ads' = [ads EXCEPT ![adSeq + 1] =
                 [owner_id |-> u,
                  title |-> inp.title,
                  description |-> inp.description,
                  price_per_day |-> inp.price_per_day,
                  location |-> inp.location,
                  category |-> inp.category,
                  contact_info |-> inp.contact_info,
                  photo_id |-> inp.photo_id,
                  status |-> PENDING,
                  rejection_reason |-> None,
                  views_count |-> 0,
                  created_at |-> adSeq + 1,
                  updated_at |-> today]]
    /\ lastOp' = [op |-> "create", ret |-> TRUE, ad |-> adSeq + 1]
    /\ UNCHANGED <<reports, reportSeq, subs, sess, hist,
                 users, feedback, evt,
                 search_results, today, fsm, user_last_request, now>>

\* an allow-list that lets the owner column through
allowed_fields_with_owner ==
    {"title", "description", "price_per_day", "location",
     "category", "contact_info", "photo_id", "owner_id"}

allowed_fields == {"title", "description", "price_per_day", "location",
                   "category", "contact_info", "photo_id"}

\* update_data without the line that clears rejection_reason
update_data_keeps_reason(fields) ==
    LET kept == DOMAIN fields \cap allowed_fields
    IN  [k \in kept \cup {"status"} |->
            IF k = "status" THEN PENDING ELSE fields[k]]

\* the dict comprehension of update_ad plus the two forced columns
update_data(fields) ==
    LET kept == DOMAIN fields \cap allowed_fields
    IN  [k \in kept \cup {"status", "rejection_reason"} |->
            IF k = "status" THEN PENDING
            ELSE IF k = "rejection_reason" THEN None
            ELSE fields[k]]

\* Ad.updated_at: onupdate=func.now(), set by every UPDATE of the row
Touch(row) == [row EXCEPT !.updated_at = today]

\* UPDATE ads SET **values WHERE id = a
ApplyValues(row, values) ==
    [k \in DOMAIN row |-> IF k \in DOMAIN values THEN values[k] ELSE row[k]]

\* AdService.update_ad.  The ownership read and the UPDATE are two round
\* trips, but owner_id is never written and ids are never reused, so the
\* only thing that can change in between is the row's disappearance, on
\* which the UPDATE matches nothing and the call returns False as well.
update_ad(a, u, fields) ==
    /\ Tick
    /\ LET ok == /\ ads[a] # NoAd
                 /\ ads[a].owner_id = u
                 /\ DOMAIN fields \cap allowed_fields # {}
       IN  /\ ads' = IF ok THEN [ads EXCEPT ![a] = Touch(ApplyValues(@, update_data(fields)))]
                     ELSE ads
           /\ lastOp' = IF ok THEN [op |-> "update_ad", ret |-> TRUE, ad |-> a,
                                      from |-> ads[a].status]
                         ELSE [op |-> "update_ad", ret |-> FALSE]
    /\ UNCHANGED <<adSeq, reports, reportSeq, subs, sess, hist,
                 users, feedback, evt,
                 search_results, today, fsm, user_last_request, now>>

\* set_status without the WHERE status = ACTIVE
set_status_from_any(a, u, status) ==
    /\ Tick
    /\ LET ok == /\ status \in {RENTED, CLOSED}
                 /\ ads[a] # NoAd
                 /\ ads[a].owner_id = u
       IN  /\ ads' = IF ok THEN [ads EXCEPT ![a].status = status, ![a].updated_at = today] ELSE ads
           /\ lastOp' = Result("set_status", ok, a)
    /\ UNCHANGED <<adSeq, reports, reportSeq, subs, sess, hist,
                 users, feedback, evt,
                 search_results, today, fsm, user_last_request, now>>

\* AdService.set_status: UPDATE ... WHERE id AND owner_id AND status = ACTIVE
set_status(a, u, status) ==
    /\ Tick
    /\ LET ok == /\ status \in {RENTED, CLOSED}
                 /\ ads[a] # NoAd
                 /\ ads[a].owner_id = u
                 /\ ads[a].status = ACTIVE
       IN  /\ ads' = IF ok THEN [ads EXCEPT ![a].status = status, ![a].updated_at = today] ELSE ads
           /\ lastOp' = Result("set_status", ok, a)
    /\ UNCHANGED <<adSeq, reports, reportSeq, subs, sess, hist,
                 users, feedback, evt,
                 search_results, today, fsm, user_last_request, now>>

\* reactivate without the WHERE owner_id
reactivate_by_anyone(a, u) ==
    /\ Tick
    /\ LET ok == /\ ads[a] # NoAd
                 /\ ads[a].status \in {RENTED, CLOSED}
       IN  /\ ads' = IF ok THEN [ads EXCEPT ![a].status = ACTIVE, ![a].updated_at = today] ELSE ads
           /\ lastOp' = Result("reactivate", ok, a)
    /\ UNCHANGED <<adSeq, reports, reportSeq, subs, sess, hist,
                 users, feedback, evt,
                 search_results, today, fsm, user_last_request, now>>

\* reactivate that announces the ad to the subscribers as approve_ad's
\* handler does
reactivate_announcing(a, u) ==
    /\ Tick
    /\ LET ok == /\ ads[a] # NoAd
                 /\ ads[a].owner_id = u
                 /\ ads[a].status \in {RENTED, CLOSED}
       IN  /\ ads' = IF ok THEN [ads EXCEPT ![a].status = ACTIVE, ![a].updated_at = today] ELSE ads
           /\ lastOp' = Result("reactivate", ok, a)
           /\ sess' = IF ok /\ \E p \in Procs : FreeSlot(p)
                      THEN [sess EXCEPT ![CHOOSE p \in Procs : FreeSlot(p)] =
                              [pc |-> "fanout", op |-> "reactivate", actor |-> u,
                               ad |-> a, snap |-> [ads[a] EXCEPT !.status = ACTIVE]]]
                      ELSE sess
    /\ UNCHANGED <<adSeq, reports, reportSeq, subs, hist,
                 users, feedback, evt,
                 search_results, today, fsm, user_last_request, now>>

\* AdService.reactivate: UPDATE ... WHERE id AND owner_id AND status IN
\* (RENTED, CLOSED)
reactivate(a, u) ==
    /\ Tick
    /\ LET ok == /\ ads[a] # NoAd
                 /\ ads[a].owner_id = u
                 /\ ads[a].status \in {RENTED, CLOSED}
       IN  /\ ads' = IF ok THEN [ads EXCEPT ![a].status = ACTIVE, ![a].updated_at = today] ELSE ads
           /\ lastOp' = Result("reactivate", ok, a)
    /\ UNCHANGED <<adSeq, reports, reportSeq, subs, sess, hist,
                 users, feedback, evt,
                 search_results, today, fsm, user_last_request, now>>

\* delete_ad on a schema whose feedbacks.ad_id does not cascade
delete_ad_keeps_feedback(a, u) ==
    /\ Tick
    /\ LET ok == ads[a] # NoAd /\ ads[a].owner_id = u
       IN  /\ ads' = IF ok THEN [ads EXCEPT ![a] = NoAd] ELSE ads
           /\ reports' = IF ok
                         THEN [r \in DOMAIN reports |->
                                 IF reports[r] # NoReport /\ reports[r].ad_id = a
                                 THEN NoReport ELSE reports[r]]
                         ELSE reports
           /\ lastOp' = Result("delete_ad", ok, a)
    /\ UNCHANGED <<adSeq, reportSeq, subs, sess, hist, users, evt, feedback,
                 search_results, today, fsm, user_last_request, now>>

\* AdService.delete_ad: DELETE ... WHERE id AND owner_id; reports.ad_id and
\* feedbacks.ad_id are declared ON DELETE CASCADE
delete_ad(a, u) ==
    /\ Tick
    /\ LET ok == ads[a] # NoAd /\ ads[a].owner_id = u
       IN  /\ ads' = IF ok THEN [ads EXCEPT ![a] = NoAd] ELSE ads
           /\ reports' = IF ok
                         THEN [r \in DOMAIN reports |->
                                 IF reports[r] # NoReport /\ reports[r].ad_id = a
                                 THEN NoReport ELSE reports[r]]
                         ELSE reports
           /\ feedback' = IF ok
                          THEN [f \in DOMAIN feedback |->
                                  IF feedback[f] # NoFeedback /\ feedback[f].ad_id = a
                                  THEN NoFeedback ELSE feedback[f]]
                          ELSE feedback
           /\ lastOp' = Result("delete_ad", ok, a)
    /\ UNCHANGED <<adSeq, reportSeq, subs, sess, hist, users, evt,
                 search_results, today, fsm, user_last_request, now>>

---------------------------------------------------------------------------
(* ModerationService.create_report *)

\* INSERT INTO reports; ad_id is a foreign key, so the INSERT fails with an
\* IntegrityError when the ad row does not exist
create_report(a, u, reason, description) ==
    /\ Tick
    /\ reportSeq < MaxReports
    /\ LET ok == ads[a] # NoAd
       IN  /\ reports' = IF ok
                         THEN [reports EXCEPT ![reportSeq + 1] =
                                 [ad_id |-> a,
                                  reporter_id |-> u,
                                  reason |-> reason,
                                  description |-> description,
                                  status |-> R_PENDING,
                                  reviewed_by |-> None,
                                  reviewed_at |-> None,
                                  admin_comment |-> None]]
                         ELSE reports
           /\ reportSeq' = IF ok THEN reportSeq + 1 ELSE reportSeq
           /\ lastOp' = Result("create_report", ok, a)
    /\ UNCHANGED <<ads, adSeq, subs, sess, hist,
                 users, feedback, evt,
                 search_results, today, fsm, user_last_request, now>>

---------------------------------------------------------------------------
(* Approving: handler approve_ad (bot/handlers/moderation.py) around       *)
(* ModerationService.approve_ad                                            *)

\* the WHERE clause of approve_ad and of reject_ad
PendingAd(a) == ads[a] # NoAd /\ ads[a].status = PENDING

\* ORDER BY created_at DESC
RECURSIVE by_created_desc(_)
by_created_desc(S) ==
    IF S = {} THEN <<>>
    ELSE LET a == CHOOSE x \in S : \A y \in S : ads[y].created_at <= ads[x].created_at
         IN  <<a>> \o by_created_desc(S \ {a})

\* ORDER BY created_at ASC
RECURSIVE by_created_asc(_)
by_created_asc(S) ==
    IF S = {} THEN <<>>
    ELSE LET a == CHOOSE x \in S : \A y \in S : ads[x].created_at <= ads[y].created_at
         IN  <<a>> \o by_created_asc(S \ {a})

\* the queue with the newest ad first
get_pending_ads_newest_first == by_created_desc({a \in DOMAIN ads : PendingAd(a)})

\* ModerationService.get_pending_ads: one SELECT
get_pending_ads == by_created_asc({a \in DOMAIN ads : PendingAd(a)})

\* show_next_in_queue, and the same lines of process_rejection_reason: the
\* queue as fetched now and the ad handed to show_ad_for_moderation; when
\* the handler was left by an exception before them, nothing is shown
Presented(reached) ==
    IF reached /\ get_pending_ads # <<>>
    THEN [next |-> TRUE, queue |-> get_pending_ads, shown |-> get_pending_ads[1]]
    ELSE [next |-> reached, queue |-> <<>>, shown |-> NoneNum]

\* state.clear() for user u
state_clear(u) == [search_results EXCEPT ![u] = <<>>]

\* the FSM data after those lines: cleared for moderator m when the queue
\* is empty
AfterPresented(reached, m) ==
    IF reached /\ get_pending_ads = <<>> THEN state_clear(m) ELSE search_results

\* SELECT ... WHERE id = a AND status = PENDING.  No row: the service
\* returns None and the handler answers "not found" and returns.
approve_ad_select(p, m, a) ==
    /\ FreeSlot(p)
    /\ m \in admin_id_list
    /\ Tick
    /\ IF PendingAd(a)
       THEN /\ sess' = [sess EXCEPT ![p] =
                          [pc |-> "commit", op |-> "approve_ad", actor |-> m,
                           ad |-> a, snap |-> ads[a]]]
            /\ lastOp' = [op |-> "approve_ad_select", ret |-> TRUE, ad |-> a]
       ELSE /\ sess' = sess
            /\ lastOp' = [op |-> "approve_ad", ret |-> None]
    /\ UNCHANGED <<ads, adSeq, reports, reportSeq, subs, hist,
                 users, feedback, evt,
                 search_results, today, fsm, user_last_request, now>>

\* approve_ad_commit with a flush that does not notice the missing row
approve_ad_commit_unchecked(p) ==
    /\ sess[p].pc = "commit"
    /\ sess[p].op = "approve_ad"
    /\ LET a == sess[p].ad
       IN  /\ ads' = IF ads[a] = NoAd THEN ads ELSE [ads EXCEPT ![a].status = ACTIVE, ![a].updated_at = today]
           /\ sess' = [sess EXCEPT ![p].pc = "notify_owner",
                                   ![p].snap.status = ACTIVE]
           /\ hist' = IF ads[a] = NoAd THEN hist ELSE Approved(a)
           /\ lastOp' = [op |-> "approve_ad", ret |-> "ad", ad |-> a,
                         from |-> IF ads[a] = NoAd THEN None ELSE ads[a].status]
    /\ UNCHANGED <<adSeq, reports, reportSeq, subs, ops,
                 users, feedback, evt,
                 search_results, today, fsm, user_last_request, now>>

\* ad.status = ACTIVE; commit.  The flush is UPDATE ads SET status = ACTIVE
\* WHERE id = a: it does not look at the status the row has by now.  If the
\* row is gone the flush raises StaleDataError and the handler is aborted.
approve_ad_commit(p) ==
    /\ sess[p].pc = "commit"
    /\ sess[p].op = "approve_ad"
    /\ LET a == sess[p].ad
       IN  IF ads[a] = NoAd
           THEN /\ sess' = [sess EXCEPT ![p] = Idle]
                /\ lastOp' = [op |-> "approve_ad", ret |-> "error"]
                /\ UNCHANGED <<ads, hist,
                 search_results, today, fsm, user_last_request, now>>
           ELSE /\ ads' = [ads EXCEPT ![a].status = ACTIVE, ![a].updated_at = today]
                /\ sess' = [sess EXCEPT ![p].pc = "notify_owner",
                                        ![p].snap.status = ACTIVE]
                /\ hist' = Approved(a)
                /\ lastOp' = [op |-> "approve_ad", ret |-> "ad", ad |-> a,
                              from |-> ads[a].status]
    /\ UNCHANGED <<adSeq, reports, reportSeq, subs, ops,
                 users, feedback, evt,
                 search_results, today, fsm, user_last_request, now>>

\* NotificationService.notify_ad_approved(ad): one send to the owner.  An
\* exception other than the two caught ones leaves the handler; the
\* middleware's rollback finds nothing uncommitted.
notify_ad_approved(p) ==
    /\ sess[p].pc = "notify_owner"
    /\ sess[p].op = "approve_ad"
    /\ \E o \in Outcomes :
          /\ sess' = [sess EXCEPT ![p] = IF o = "raise" THEN Idle
                                         ELSE [@ EXCEPT !.pc = "fanout"]]
          /\ lastOp' = [op |-> "notify_ad_approved", ret |-> o, ad |-> sess[p].ad]
    /\ hist' = Bump(sess[p].ad, "noteApproved")
    /\ UNCHANGED <<ads, adSeq, reports, reportSeq, subs, ops,
                 users, feedback, evt,
                 search_results, today, fsm, user_last_request, now>>

---------------------------------------------------------------------------
(* NotificationService.notify_new_ad *)

\* the rows the query returns: is_active and user_id != ad.owner_id
FanoutQuery(ad) ==
    {s \in SubIds : subs[s].is_active /\ subs[s].user_id # ad.owner_id}

\* the query has no ORDER BY: the rows come in any order
Orders(S) ==
    {f \in [1..Cardinality(S) -> S] : \A i, j \in DOMAIN f : f[i] = f[j] => i = j}

\* the loop of notify_new_ad over rows `order` when the send for
\* subscription s ends as dl[s]: the subscriptions sent to, in order, how
\* each send ended, whether an exception left the loop, and sent_count
\* (the value returned when none did)
FanoutLoop(ad, order, dl) ==
    LET toSend == SelectSeq(order, LAMBDA s : matches_ad(subs[s], ad))
        raises == {i \in DOMAIN toSend : dl[toSend[i]] = "raise"}
        stop == IF raises = {} THEN Len(toSend)
                ELSE CHOOSE i \in raises : \A j \in raises : i <= j
        attempted == SubSeq(toSend, 1, stop)
    IN  [attempted |-> attempted,
         results |-> [i \in DOMAIN attempted |-> dl[attempted[i]]],
         raised |-> raises # {},
         sent_count |-> Cardinality({i \in DOMAIN attempted :
                                       dl[attempted[i]] = "ok"})]

\* the fan-out step of the approve handler; the ad it works on is the
\* object approve_ad returned, as loaded by the SELECT
notify_new_ad(p) ==
    /\ sess[p].pc = "fanout"
    /\ LET ad == sess[p].snap
       IN  \E order \in Orders(FanoutQuery(ad)) :
           \E dl \in [FanoutQuery(ad) -> Outcomes] :
              /\ lastOp' = [op |-> "notify_new_ad", ad |-> sess[p].ad, snap |-> ad,
                            run |-> FanoutLoop(ad, order, dl),
                            then |-> Presented(~FanoutLoop(ad, order, dl).raised)]
              /\ search_results' =
                    AfterPresented(~FanoutLoop(ad, order, dl).raised, sess[p].actor)
    /\ sess' = [sess EXCEPT ![p] = Idle]
    /\ hist' = Bump(sess[p].ad, "fanouts")
    /\ UNCHANGED <<ads, adSeq, reports, reportSeq, subs, ops,
                 users, feedback, evt, today, fsm, user_last_request, now>>

---------------------------------------------------------------------------
(* Rejecting: handler process_rejection_reason around                      *)
(* ModerationService.reject_ad                                             *)

\* SELECT ... WHERE id = a AND status = PENDING
reject_ad_select(p, m, a, reason) ==
    /\ FreeSlot(p)
    /\ m \in admin_id_list
    /\ Tick
    /\ IF PendingAd(a)
       THEN /\ sess' = [sess EXCEPT ![p] =
                          [pc |-> "commit", op |-> "reject_ad", actor |-> m,
                           ad |-> a, snap |-> ads[a], reason |-> reason]]
            /\ lastOp' = [op |-> "reject_ad_select", ret |-> TRUE, ad |-> a]
            /\ UNCHANGED search_results
       ELSE /\ sess' = sess
            /\ lastOp' = [op |-> "reject_ad", ret |-> None]
            /\ search_results' = state_clear(m)
    /\ UNCHANGED <<ads, adSeq, reports, reportSeq, subs, hist,
                 users, feedback, evt, today, fsm, user_last_request, now>>

\* ad.status = REJECTED; ad.rejection_reason = reason; commit.  The flush
\* is UPDATE ads SET status, rejection_reason WHERE id = a.
reject_ad_commit(p) ==
    /\ sess[p].pc = "commit"
    /\ sess[p].op = "reject_ad"
    /\ LET a == sess[p].ad
       IN  IF ads[a] = NoAd
           THEN /\ sess' = [sess EXCEPT ![p] = Idle]
                /\ lastOp' = [op |-> "reject_ad", ret |-> "error"]
                /\ UNCHANGED ads
           ELSE /\ ads' = [ads EXCEPT ![a].status = REJECTED,
                                      ![a].rejection_reason = sess[p].reason,
                                      ![a].updated_at = today]
                /\ sess' = [sess EXCEPT ![p].pc = "notify_owner",
                                        ![p].snap.status = REJECTED,
                                        ![p].snap.rejection_reason = sess[p].reason]
                /\ lastOp' = [op |-> "reject_ad", ret |-> "ad", ad |-> a,
                              from |-> ads[a].status]
    /\ UNCHANGED <<adSeq, reports, reportSeq, subs, hist, ops,
                 users, feedback, evt,
                 search_results, today, fsm, user_last_request, now>>

\* NotificationService.notify_ad_rejected(ad); the handler then shows the
\* next ad of the queue and ends
notify_ad_rejected(p) ==
    /\ sess[p].pc = "notify_owner"
    /\ sess[p].op = "reject_ad"
    /\ \E o \in Outcomes :
          /\ lastOp' = [op |-> "notify_ad_rejected", ret |-> o, ad |-> sess[p].ad,
                        then |-> Presented(o # "raise")]
          /\ search_results' = AfterPresented(o # "raise", sess[p].actor)
    /\ sess' = [sess EXCEPT ![p] = Idle]
    /\ UNCHANGED <<ads, adSeq, reports, reportSeq, subs, hist, ops,
                 users, feedback, evt, today, fsm, user_last_request, now>>

---------------------------------------------------------------------------
(* ModerationService.review_report *)

\* a query that looks the report up by id alone
PendingReport_by_id(r) == reports[r] # NoReport

\* the WHERE clause of review_report
PendingReport(r) == reports[r] # NoReport /\ reports[r].status = R_PENDING

\* SELECT ... WHERE id = r AND status = PENDING, with the report's ad
\* loaded in the same round trip (Report.ad is lazy="joined")
review_report_select(p, m, r, action, comment) ==
    /\ FreeSlot(p)
    /\ m \in admin_id_list
    /\ Tick
    /\ IF PendingReport(r)
       THEN /\ sess' = [sess EXCEPT ![p] =
                          [pc |-> "commit", op |-> "review_report", actor |-> m,
                           report |-> r, snap |-> reports[r],
                           snap_ad |-> ads[reports[r].ad_id],
                           action |-> action, comment |-> comment,
                           now |-> ops + 1]]
            /\ lastOp' = [op |-> "review_report_select", ret |-> TRUE, report |-> r]
       ELSE /\ sess' = sess
            /\ lastOp' = [op |-> "review_report", ret |-> None]
    /\ UNCHANGED <<ads, adSeq, reports, reportSeq, subs, hist,
                 users, feedback, evt,
                 search_results, today, fsm, user_last_request, now>>

\* the attribute assignments and the commit.  The flush writes the changed
\* attributes of the report by primary key, and the ad's status by primary
\* key when CLOSED differs from the status that was loaded.  A row that is
\* gone (the ad was deleted, the report with it) makes the flush raise
\* StaleDataError.
review_report_commit(p) ==
    /\ sess[p].pc = "commit"
    /\ sess[p].op = "review_report"
    /\ LET r == sess[p].report
           a == sess[p].snap.ad_id
           approve == sess[p].action = "approve"
       IN  IF reports[r] = NoReport
           THEN /\ lastOp' = [op |-> "review_report", ret |-> "error"]
                /\ UNCHANGED <<ads, reports,
                 search_results, today, fsm, user_last_request, now>>
           ELSE /\ reports' = [reports EXCEPT
                                 ![r].reviewed_by = sess[p].actor,
                                 ![r].reviewed_at = sess[p].now,
                                 ![r].admin_comment = IF sess[p].comment # sess[p].snap.admin_comment
                                                      THEN sess[p].comment ELSE @,
                                 ![r].status = IF approve THEN R_REVIEWED
                                               ELSE R_DISMISSED]
                /\ ads' = IF approve /\ sess[p].snap_ad.status # CLOSED
                          THEN [ads EXCEPT ![a].status = CLOSED, ![a].updated_at = today]
                          ELSE ads
                /\ lastOp' = [op |-> "review_report", ret |-> "report",
                              report |-> r, ad |-> a, actor |-> sess[p].actor,
                              action |-> sess[p].action, comment |-> sess[p].comment,
                              from |-> reports[r].status, ad_from |-> ads[a].status]
    /\ sess' = [sess EXCEPT ![p] = Idle]
    /\ UNCHANGED <<adSeq, reportSeq, subs, hist, ops,
                 users, feedback, evt,
                 search_results, today, fsm, user_last_request, now>>

---------------------------------------------------------------------------
(* The system *)

Next ==
    \/ \E u \in Owners, inp \in AdInputs : create(u, inp)
    \/ \E a \in AdIds, u \in Callers, f \in EditInputs : update_ad(a, u, f)
    \/ \E a \in AdIds, u \in Callers, st \in AdStatus : set_status(a, u, st)
    \/ \E a \in AdIds, u \in Callers : reactivate(a, u)
    \/ \E a \in AdIds, u \in Callers : delete_ad(a, u)
    \/ \E a \in AdIds, u \in Callers : create_report(a, u, "spam", None)
    \/ \E p \in Procs, m \in Users, a \in AdIds : approve_ad_select(p, m, a)
    \/ \E p \in Procs : approve_ad_commit(p)
    \/ \E p \in Procs : notify_ad_approved(p)
    \/ \E p \in Procs : notify_new_ad(p)
    \/ \E p \in Procs, m \in Users, a \in AdIds, rs \in Reasons :
          reject_ad_select(p, m, a, rs)
    \/ \E p \in Procs : reject_ad_commit(p)
    \/ \E p \in Procs : notify_ad_rejected(p)
    \/ \E p \in Procs, m \in Users, r \in ReportIds,
          act \in ReviewActions, c \in Comments :
          review_report_select(p, m, r, act, c)
    \/ \E p \in Procs : review_report_commit(p)

Spec == Init /\ [][Next]_vars

---------------------------------------------------------------------------
(* Serial executions: a call runs to its end before the next one starts *)

SerialStep == \A p \in Procs : sess[p] # Idle => sess'[p] # sess[p]

SerialNext == Next /\ SerialStep

SerialSpec == Init /\ [][SerialNext]_vars

---------------------------------------------------------------------------
(* The approve handler over every small subscriptions table: one PENDING   *)
(* ad and the moderators' approve clicks                                   *)

InitFanout ==
    /\ \E inp \in AdInputs :
          ads = [a \in AdIds |->
                   IF a = 1
                   THEN [owner_id |-> 1,
                         title |-> inp.title,
                         description |-> inp.description,
                         price_per_day |-> inp.price_per_day,
                         location |-> inp.location,
                         category |-> inp.category,
                         contact_info |-> inp.contact_info,
                         photo_id |-> inp.photo_id,
                         status |-> PENDING,
                         rejection_reason |-> None,
                         views_count |-> 0,
                         created_at |-> 1,
                         updated_at |-> 0]
                   ELSE NoAd]
    /\ adSeq = 1
    /\ reports = [r \in ReportIds |-> NoReport]
    /\ reportSeq = 0
    /\ subs \in [SubIds -> SubRows]
    /\ sess = [p \in Procs |-> Idle]
    /\ hist = [a \in AdIds |-> NoHist]
    /\ lastOp = [op |-> "init"]
    /\ ops = 0
    /\ users = [u \in Users |-> UserRow(u)]
    /\ feedback = [f \in FeedbackIds |-> NoFeedback]
    /\ evt = NoEvent
    /\ search_results = [u \in Users |-> <<>>]
    /\ today = 0
    /\ fsm = [u \in Users |-> NoFsm]
    /\ user_last_request = NoRequests
    /\ now = StartTime

NextFanout ==
    \/ \E p \in Procs, m \in Users, a \in AdIds : approve_ad_select(p, m, a)
    \/ \E p \in Procs : approve_ad_commit(p)
    \/ \E p \in Procs : notify_ad_approved(p)
    \/ \E p \in Procs : notify_new_ad(p)

FanoutSpec == InitFanout /\ [][NextFanout]_vars

---------------------------------------------------------------------------
(* Claims *)

C1_Edges ==
    { <<PENDING, ACTIVE>>, <<PENDING, REJECTED>>, <<ACTIVE, RENTED>>,
      <<ACTIVE, CLOSED>>, <<RENTED, ACTIVE>>, <<CLOSED, ACTIVE>> }

C1_Ops == {"create", "update_ad", "approve_ad", "reject_ad",
                 "set_status", "reactivate", "delete_ad"}

\* C1: under create, update_ad, approve_ad, reject_ad, set_status,
\* reactivate and delete_ad every ad's status is one of the five, a new ad
\* starts PENDING, and every status change is an edge of the lifecycle or a
\* move to PENDING made by update_ad.
C1_LifecycleEdges ==
    [][lastOp'.op \in C1_Ops =>
         \A a \in AdIds :
            /\ ads'[a] # NoAd => ads'[a].status \in AdStatus
            /\ (ads[a] = NoAd /\ ads'[a] # NoAd) => ads'[a].status = PENDING
            /\ (ads[a] # NoAd /\ ads'[a] # NoAd /\ ads'[a].status # ads[a].status) =>
                  \/ <<ads[a].status, ads'[a].status>> \in C1_Edges
                  \/ ads'[a].status = PENDING /\ lastOp'.op = "update_ad"]_vars

\* C2: of two approve_ad calls on the same PENDING ad only the one that
\* moves it PENDING->ACTIVE returns the ad: a call whose write finds the ad
\* already ACTIVE does not return it (and so triggers no second notice or
\* fan-out).
C2_OneApprovalWins ==
    (lastOp.op = "approve_ad" /\ lastOp.ret = "ad") => lastOp.from # ACTIVE

\* C3: after a successful update_ad the ad is PENDING and has no rejection
\* reason, whatever its status was.
C3_EditResets ==
    (lastOp.op = "update_ad" /\ lastOp.ret) =>
        /\ ads[lastOp.ad] # NoAd
        /\ ads[lastOp.ad].status = PENDING
        /\ ads[lastOp.ad].rejection_reason = None

\* a REJECTED ad, carrying its reason, has just been edited
C3_Witness ==
    lastOp.op = "update_ad" /\ lastOp.ret /\ lastOp.from = REJECTED

\* C4: an ad has a rejection reason only while its status is REJECTED.
C4_ReasonOnlyWhenRejected ==
    \A a \in AdIds :
        (ads[a] # NoAd /\ ads[a].rejection_reason # None) => ads[a].status = REJECTED

\* C5: review_report with action 'approve' never moves an ad that is
\* PENDING at that moment to CLOSED.
C5_PendingNotClosedByReview ==
    (lastOp.op = "review_report" /\ lastOp.ret = "report" /\ lastOp.ad_from = PENDING)
        => ads[lastOp.ad].status # CLOSED

\* C6, first part: a review that takes effect found the report PENDING,
\* stores its moderator and comment, and with 'approve' leaves the report
\* REVIEWED and the ad CLOSED, with any other action the report DISMISSED
\* and the ad's status as it was.
C6_ReviewResult ==
    (lastOp.op = "review_report" /\ lastOp.ret = "report") =>
        LET rep == reports[lastOp.report]
            ad == ads[lastOp.ad]
        IN  /\ lastOp.from = R_PENDING
            /\ rep.reviewed_by = lastOp.actor
            /\ rep.admin_comment = lastOp.comment
            /\ IF lastOp.action = "approve"
               THEN rep.status = R_REVIEWED /\ ad.status = CLOSED
               ELSE rep.status = R_DISMISSED /\ ad.status = lastOp.ad_from

\* C6, second part: a review_report call goes past its SELECT only on a
\* PENDING report; a call that returns None changes no report and no ad; a
\* report that is no longer PENDING never changes again.
C6_LaterReviewNoop ==
    /\ lastOp'.op = "review_report_select" =>
          /\ reports[lastOp'.report] # NoReport
          /\ reports[lastOp'.report].status = R_PENDING
    /\ (lastOp'.op = "review_report" /\ lastOp'.ret = None) =>
          (ads' = ads /\ reports' = reports)
    /\ \A r \in ReportIds :
          (/\ reports[r] # NoReport
           /\ reports[r].status # R_PENDING
           /\ reports'[r] # NoReport) => reports'[r] = reports[r]

\* C6: in serial executions review_report resolves a PENDING report as
\* stated and every later review_report on it returns None and changes
\* nothing.
C6_ReviewExactlyOnce == []C6_ReviewResult /\ [][C6_LaterReviewNoop]_vars

\* a report against a RENTED ad has just been reviewed with 'approve'
C6_Witness ==
    /\ lastOp.op = "review_report"
    /\ lastOp.ret = "report"
    /\ lastOp.action = "approve"
    /\ lastOp.ad_from = RENTED

\* C7: of two concurrent review_report calls on one PENDING report only one
\* takes effect: a call writes the report only if it is still PENDING.
C7_OneReviewWins ==
    (lastOp.op = "review_report" /\ lastOp.ret = "report") => lastOp.from = R_PENDING

\* C8: of an approve_ad and a reject_ad running concurrently on one PENDING
\* ad only the first transition succeeds: approve_ad does not return an ad
\* that has been rejected meanwhile, nor reject_ad one that has been
\* approved.
C8_ApproveRejectExclusive ==
    /\ (lastOp.op = "approve_ad" /\ lastOp.ret = "ad") => lastOp.from # REJECTED
    /\ (lastOp.op = "reject_ad" /\ lastOp.ret = "ad") => lastOp.from # ACTIVE

\* C9, counting: no more approval notices than committed approvals and no
\* more fan-outs than notices, for every ad.
C9_NoticesFollowCommits ==
    \A a \in AdIds :
        /\ hist[a].noteApproved <= hist[a].approved
        /\ hist[a].fanouts <= hist[a].noteApproved

\* C9, steps: a notification step changes no ad (a failure raised by it
\* reverts nothing); an approve_ad that returns None, or whose commit
\* fails, sends nothing and leaves no handler that would.
C9_NotifySteps ==
    /\ lastOp'.op \in {"notify_ad_approved", "notify_new_ad"} => ads' = ads
    /\ (lastOp'.op = "approve_ad" /\ lastOp'.ret \in {None, "error"}) =>
          /\ hist' = hist
          /\ \A p \in Procs : sess'[p] # sess[p] => sess'[p] = Idle

\* C9: the owner notice and the fan-out come only after the PENDING->ACTIVE
\* commit, never after a None return or a failed commit, and a failure
\* while notifying leaves the ad ACTIVE.
C9_NotifyAfterCommit == []C9_NoticesFollowCommits /\ [][C9_NotifySteps]_vars

\* the owner notice has just raised and the ad is still ACTIVE
C9_Witness ==
    /\ lastOp.op = "notify_ad_approved"
    /\ lastOp.ret = "raise"
    /\ ads[lastOp.ad] # NoAd
    /\ ads[lastOp.ad].status = ACTIVE

\* the subscriptions notify_new_ad is to notify about ad
C10_Targets(ad) ==
    {s \in SubIds : /\ subs[s].is_active
                    /\ subs[s].user_id # ad.owner_id
                    /\ matches_ad(subs[s], ad)}

\* C10: notify_new_ad attempts one notification for each subscription that
\* is active, belongs to another user than the ad's owner and matches the
\* ad, and for no other; the value it returns is the number of attempts
\* that were delivered.
C10_FanoutExact ==
    lastOp.op = "notify_new_ad" =>
        LET run == lastOp.run
        IN  /\ {run.attempted[i] : i \in DOMAIN run.attempted} = C10_Targets(lastOp.snap)
            /\ Len(run.attempted) = Cardinality(C10_Targets(lastOp.snap))
            /\ ~run.raised =>
                  run.sent_count =
                      Cardinality({i \in DOMAIN run.results : run.results[i] = "ok"})

\* C11: whatever way each delivery ends (delivered, refused by Telegram
\* as blocked or bad request, or failed with a network or rate-limit
\* error), notify_new_ad completes: no exception leaves it, and every
\* matching subscription the query returned is attempted.
C11_FanoutCompletes ==
    lastOp.op = "notify_new_ad" =>
        /\ ~lastOp.run.raised
        /\ Len(lastOp.run.attempted) =
              Cardinality({s \in FanoutQuery(lastOp.snap) :
                              matches_ad(subs[s], lastOp.snap)})

---------------------------------------------------------------------------
(* Subscription.matches_ad on its own: one subscription row and one ad     *)
(* drawn from small sets of values, and the call                           *)

T_saw == <<"s", "w">>

\* criteria SubscriptionService.create stores: the text the user typed
\* (None after /skip), a category of AD_CATEGORIES or None, a positive
\* price or None
MatchKeywords == {NoneStr, <<>>, <<"D", "R">>, <<"R", "x">>, T_saw}
MatchCategories == {None, "Tools", "Sport"}
MatchLocations == {NoneStr, <<>>, <<"m">>, <<"z">>}
MatchPrices == {NoneNum, 400, 500, 600}

MatchSubs ==
    { [user_id |-> 2, keywords |-> k, category |-> c, location |-> l,
       max_price |-> m, is_active |-> TRUE] :
         k \in MatchKeywords, c \in MatchCategories,
         l \in MatchLocations, m \in MatchPrices }

MatchAdInputs ==
    { [title |-> t, description |-> d, price_per_day |-> pr,
       location |-> L_msk, category |-> c, contact_info |-> "c1",
       photo_id |-> None] :
         t \in {T_drill, T_saw}, d \in {D_text, <<"q">>},
         pr \in {500, 401}, c \in {"Tools", "Sport"} }

\* the row AdService.create inserts for owner u
AdRow(u, inp) ==
    [owner_id |-> u,
     title |-> inp.title,
     description |-> inp.description,
     price_per_day |-> inp.price_per_day,
     location |-> inp.location,
     category |-> inp.category,
     contact_info |-> inp.contact_info,
     photo_id |-> inp.photo_id,
     status |-> PENDING,
     rejection_reason |-> None,
     views_count |-> 0,
     created_at |-> 1,
     updated_at |-> 0]

InitMatch ==
    /\ \E inp \in MatchAdInputs :
          ads = [a \in AdIds |-> IF a = 1 THEN AdRow(1, inp) ELSE NoAd]
    /\ adSeq = 1
    /\ reports = [r \in ReportIds |-> NoReport]
    /\ reportSeq = 0
    /\ \E row \in MatchSubs : subs = [s \in SubIds |-> row]
    /\ sess = [p \in Procs |-> Idle]
    /\ hist = [a \in AdIds |-> NoHist]
    /\ lastOp = [op |-> "init"]
    /\ ops = 0
    /\ users = [u \in Users |-> UserRow(u)]
    /\ feedback = [f \in FeedbackIds |-> NoFeedback]
    /\ evt = NoEvent
    /\ search_results = [u \in Users |-> <<>>]
    /\ today = 0
    /\ fsm = [u \in Users |-> NoFsm]
    /\ user_last_request = NoRequests
    /\ now = StartTime

\* sub.matches_ad(ad), as notify_new_ad calls it
call_matches_ad(s, a) ==
    /\ ads[a] # NoAd
    /\ lastOp' = [op |-> "matches_ad", sub |-> subs[s], ad |-> ads[a],
                  ret |-> matches_ad(subs[s], ads[a])]
    /\ UNCHANGED <<ads, adSeq, reports, reportSeq, subs, sess, hist, ops,
                 users, feedback, evt,
                 search_results, today, fsm, user_last_request, now>>

NextMatch == \E s \in SubIds, a \in AdIds : call_matches_ad(s, a)

MatchSpec == InitMatch /\ [][NextMatch]_vars

\* two characters that are the same letter, whatever their case
C12_SameLetter(a, b) ==
    a = b \/ {a, b} \in {{"D", "d"}, {"R", "r"}, {"M", "m"}}

\* needle occurs in hay when case is ignored
C12_Occurs(needle, hay) ==
    \E i \in 0..(Len(hay) - Len(needle)) :
        \A j \in 1..Len(needle) : C12_SameLetter(hay[i + j], needle[j])

\* C12: matches_ad returns true exactly when every criterion that is set
\* holds: the keyword occurs, ignoring case, in the title or in the
\* description; the category equals the ad's; the location occurs,
\* ignoring case, in the ad's location; the max price is at least the ad's
\* price.
C12_MatchesExactly ==
    lastOp.op = "matches_ad" =>
        LET sub == lastOp.sub
            ad == lastOp.ad
        IN  lastOp.ret <=>
              /\ sub.keywords # NoneStr =>
                    \/ C12_Occurs(sub.keywords, ad.title)
                    \/ C12_Occurs(sub.keywords, ad.description)
              /\ sub.category # None => sub.category = ad.category
              /\ sub.location # NoneStr => C12_Occurs(sub.location, ad.location)
              /\ sub.max_price # NoneNum => sub.max_price >= ad.price_per_day

\* a subscription with keyword "DR", category and max price 500 has matched
\* an ad titled "Dr" priced 500
C12_Witness ==
    /\ lastOp.op = "matches_ad"
    /\ lastOp.ret
    /\ lastOp.sub.keywords = <<"D", "R">>
    /\ lastOp.sub.category = "Tools"
    /\ lastOp.sub.max_price = 500
    /\ lastOp.ad.price_per_day = 500

\* C13: a subscription with no keyword, no category, no location and no
\* max price matches every ad.
C13_NoCriteriaMatchesAll ==
    (/\ lastOp.op = "matches_ad"
     /\ lastOp.sub.keywords = NoneStr
     /\ lastOp.sub.category = None
     /\ lastOp.sub.location = NoneStr
     /\ lastOp.sub.max_price = NoneNum) => lastOp.ret

\* matches_ad has been called on a subscription without criteria
C13_Witness ==
    /\ lastOp.op = "matches_ad"
    /\ lastOp.sub = NoCriteria(2, TRUE)
    /\ lastOp.ret

\* the subscriptions obtained from sub by setting one unset criterion
C14_Extensions(sub) ==
    {[sub EXCEPT !.keywords = k] :
        k \in IF sub.keywords = NoneStr THEN MatchKeywords \ {NoneStr} ELSE {}}
    \cup {[sub EXCEPT !.category = c] :
        c \in IF sub.category = None THEN MatchCategories \ {None} ELSE {}}
    \cup {[sub EXCEPT !.location = l] :
        l \in IF sub.location = NoneStr THEN MatchLocations \ {NoneStr} ELSE {}}
    \cup {[sub EXCEPT !.max_price = m] :
        m \in IF sub.max_price = NoneNum THEN MatchPrices \ {NoneNum} ELSE {}}

\* C14: setting one unset criterion of a subscription never adds an ad to
\* what it matches: an ad matched by the extended subscription is matched
\* by the original one.
C14_Monotonic ==
    lastOp.op = "matches_ad" =>
        \A ext \in C14_Extensions(lastOp.sub) :
            matches_ad(ext, lastOp.ad) => lastOp.ret

\* a subscription with a category but no keyword matches the ad, and so
\* does the one that adds a keyword, while the one that adds a max price
\* below the ad's price does not
C14_Witness ==
    /\ lastOp.op = "matches_ad"
    /\ lastOp.ret
    /\ lastOp.sub.category = "Tools"
    /\ lastOp.sub.keywords = NoneStr
    /\ lastOp.sub.max_price = NoneNum
    /\ matches_ad([lastOp.sub EXCEPT !.keywords = <<"D", "R">>], lastOp.ad)
    /\ ~matches_ad([lastOp.sub EXCEPT !.max_price = 400], lastOp.ad)

\* C17: a set_status(a, u, st) call changes the ad only when st is RENTED
\* or CLOSED, u owns the ad and the ad is ACTIVE; it then sets the status
\* to st, changes nothing else and returns true.  In every other case it
\* returns false and no ad changes.
C17_SetStatus ==
    [][\A a \in AdIds, u \in Users, st \in AdStatus :
          set_status(a, u, st) =>
              IF /\ st \in {RENTED, CLOSED}
                 /\ ads[a] # NoAd
                 /\ ads[a].owner_id = u
                 /\ ads[a].status = ACTIVE
              THEN /\ lastOp'.ret
                   /\ ads' = [ads EXCEPT ![a].status = st]
              ELSE ~lastOp'.ret /\ ads' = ads]_vars

\* the owner has just marked the ACTIVE ad as RENTED
C17_Witness ==
    /\ lastOp.op = "set_status"
    /\ lastOp.ret
    /\ ads[lastOp.ad].status = RENTED

\* C18: a reactivate(a, u) call moves the ad to ACTIVE and returns true
\* only when u owns the ad and the ad is RENTED or CLOSED; for an ad that
\* is PENDING, REJECTED or ACTIVE, or for another caller, it returns false
\* and no ad changes.
C18_Reactivate ==
    [][\A a \in AdIds, u \in Users :
          reactivate(a, u) =>
              IF /\ ads[a] # NoAd
                 /\ ads[a].owner_id = u
                 /\ ads[a].status \in {RENTED, CLOSED}
              THEN /\ lastOp'.ret
                   /\ ads' = [ads EXCEPT ![a].status = ACTIVE]
              ELSE ~lastOp'.ret /\ ads' = ads]_vars

\* the owner has just reactivated the ad that was RENTED or CLOSED
C18_Witness ==
    /\ lastOp.op = "reactivate"
    /\ lastOp.ret
    /\ ads[lastOp.ad].status = ACTIVE

---------------------------------------------------------------------------
(* AdService.delete_ad on populated tables: up to MaxDelAds ads of two     *)
(* owners, MaxDelRows reports and MaxDelRows feedbacks                     *)

DelAdIds == 1..MaxDelAds
DelRowIds == 1..MaxDelRows

\* the row ModerationService.create_report inserts
ReportRow(a, u) ==
    [ad_id |-> a, reporter_id |-> u, reason |-> "spam", description |-> None,
     status |-> R_PENDING, reviewed_by |-> None, reviewed_at |-> None,
     admin_comment |-> None]

\* a row of feedbacks: about the bot (ad_id NoneNum) or attached to an ad.
\* The column and its ON DELETE CASCADE are part of the schema; the
\* feedback dialogue itself stores ad_id None.
FeedbackRow(a, u) == [ad_id |-> a, user_id |-> u, rating |-> 5]

\* ads exist, every report refers to an existing ad, every feedback to an
\* existing ad or to none (the foreign keys)
InitDelete ==
    /\ ads \in [DelAdIds -> {NoAd} \cup {AdRow(u, inp) : u \in Callers, inp \in AdInputs}
                              \cup {[AdRow(u, inp) EXCEPT !.created_at = 2] :
                                       u \in Callers, inp \in AdInputs}]
    /\ \E a \in DelAdIds : ads[a] # NoAd
    /\ \A a \in DelAdIds : ads[a] # NoAd => ads[a].created_at = a
    /\ adSeq = MaxDelAds
    /\ reports \in [DelRowIds -> {ReportRow(a, 3) : a \in DelAdIds}]
    /\ \A r \in DelRowIds : ads[reports[r].ad_id] # NoAd
    /\ reportSeq = MaxDelRows
    /\ feedback \in [DelRowIds -> {FeedbackRow(a, 3) : a \in DelAdIds \cup {NoneNum}}]
    /\ \A f \in DelRowIds :
          feedback[f].ad_id # NoneNum => ads[feedback[f].ad_id] # NoAd
    /\ subs = [s \in SubIds |-> SubTable(s)]
    /\ sess = [p \in Procs |-> Idle]
    /\ hist = [a \in AdIds |-> NoHist]
    /\ lastOp = [op |-> "init"]
    /\ ops = 0
    /\ users = [u \in Users |-> UserRow(u)]
    /\ evt = NoEvent
    /\ search_results = [u \in Users |-> <<>>]
    /\ today = 0
    /\ fsm = [u \in Users |-> NoFsm]
    /\ user_last_request = NoRequests
    /\ now = StartTime

NextDelete == \E a \in DelAdIds, u \in Callers : delete_ad(a, u)

DeleteSpec == InitDelete /\ [][NextDelete]_vars

\* the table without the rows attached to ad a
C19_Without(table, absent, a) ==
    [i \in DOMAIN table |->
        IF table[i] # absent /\ table[i].ad_id = a THEN absent ELSE table[i]]

\* C19, state: no report and no feedback refers to an ad that is gone.
C19_NoOrphans ==
    /\ \A r \in DOMAIN reports :
          reports[r] # NoReport => ads[reports[r].ad_id] # NoAd
    /\ \A f \in DOMAIN feedback :
          (feedback[f] # NoFeedback /\ feedback[f].ad_id # NoneNum)
              => ads[feedback[f].ad_id] # NoAd

\* C19, step: delete_ad(a, u) by the owner returns true and removes the ad,
\* the reports against it and the feedbacks attached to it, and nothing
\* else; by anyone else it returns false and removes nothing.
C19_DeleteStep ==
    \A a \in DOMAIN ads, u \in Users :
        delete_ad(a, u) =>
            IF ads[a] # NoAd /\ ads[a].owner_id = u
            THEN /\ lastOp'.ret
                 /\ ads' = [ads EXCEPT ![a] = NoAd]
                 /\ reports' = C19_Without(reports, NoReport, a)
                 /\ feedback' = C19_Without(feedback, NoFeedback, a)
            ELSE /\ ~lastOp'.ret
                 /\ ads' = ads
                 /\ reports' = reports
                 /\ feedback' = feedback

\* C19: delete_ad removes the ad only for its owner; the delete takes the
\* ad's reports and feedbacks with it and no record of another ad.
C19_DeleteCascade == []C19_NoOrphans /\ [][C19_DeleteStep]_vars

\* an ad has been deleted with a report and a feedback of its own, while
\* another ad is still there with its report and its feedback
C19_Witness ==
    /\ lastOp.op = "delete_ad"
    /\ lastOp.ret
    /\ ads[lastOp.ad] = NoAd
    /\ \E r \in DOMAIN reports : reports[r] = NoReport
    /\ \E f \in DOMAIN feedback : feedback[f] = NoFeedback
    /\ \E b \in DOMAIN ads :
          /\ ads[b] # NoAd
          /\ \E r \in DOMAIN reports : reports[r] # NoReport /\ reports[r].ad_id = b
          /\ \E f \in DOMAIN feedback :
                feedback[f] # NoFeedback /\ feedback[f].ad_id = b

---------------------------------------------------------------------------
(* Viewing an ad: handler view_ad_from_search (bot/handlers/ad_search.py)  *)
(* around AdService.get_by_id and AdService.increment_views                *)

\* ad = get_by_id(ad_id); a missing ad is answered "not found"; the owner
\* is shown the ad and nothing is counted; for anyone else the handler
\* goes on to increment_views
view_ad_select(p, u, a) ==
    /\ FreeSlot(p)
    /\ Tick
    /\ IF ads[a] = NoAd
       THEN /\ sess' = sess
            /\ lastOp' = [op |-> "view_ad", ret |-> FALSE]
       ELSE IF ads[a].owner_id = u
       THEN /\ sess' = sess
            /\ lastOp' = [op |-> "view_ad", ret |-> TRUE, ad |-> a, viewer |-> u]
       ELSE /\ sess' = [sess EXCEPT ![p] =
                          [pc |-> "increment", op |-> "view_ad", actor |-> u,
                           ad |-> a, snap |-> ads[a]]]
            /\ lastOp' = [op |-> "view_ad_select", ret |-> TRUE, ad |-> a,
                          viewer |-> u]
    /\ UNCHANGED <<ads, adSeq, reports, reportSeq, subs, hist,
                 users, feedback, evt,
                 search_results, today, fsm, user_last_request, now>>

\* an increment computed from the ad object the handler loaded
increment_views_from_snapshot(p) ==
    /\ sess[p].pc = "increment"
    /\ LET a == sess[p].ad
       IN  /\ ads' = IF ads[a] = NoAd THEN ads
                     ELSE [ads EXCEPT ![a].views_count = sess[p].snap.views_count + 1,
                                      ![a].updated_at = today]
           /\ lastOp' = [op |-> "increment_views", ret |-> TRUE, ad |-> a,
                         viewer |-> sess[p].actor]
    /\ sess' = [sess EXCEPT ![p] = Idle]
    /\ UNCHANGED <<adSeq, reports, reportSeq, subs, hist, ops,
                 users, feedback, evt,
                 search_results, today, fsm, user_last_request, now>>

\* AdService.increment_views: UPDATE ads SET views_count = views_count + 1
\* WHERE id = a, one statement evaluated by the database
increment_views(p) ==
    /\ sess[p].pc = "increment"
    /\ LET a == sess[p].ad
       IN  /\ ads' = IF ads[a] = NoAd THEN ads
                     ELSE [ads EXCEPT ![a].views_count = @ + 1, ![a].updated_at = today]
           /\ lastOp' = [op |-> "increment_views", ret |-> TRUE, ad |-> a,
                         viewer |-> sess[p].actor]
    /\ sess' = [sess EXCEPT ![p] = Idle]
    /\ UNCHANGED <<adSeq, reports, reportSeq, subs, hist, ops,
                 users, feedback, evt,
                 search_results, today, fsm, user_last_request, now>>

\* views next to the owner's operations and the approval of the ad
NextView ==
    \/ \E u \in Owners, inp \in AdInputs : create(u, inp)
    \/ \E p \in Procs, u \in Users, a \in AdIds : view_ad_select(p, u, a)
    \/ \E p \in Procs : increment_views(p)
    \/ \E a \in AdIds, u \in Callers, f \in EditInputs : update_ad(a, u, f)
    \/ \E a \in AdIds, u \in Callers, st \in AdStatus : set_status(a, u, st)
    \/ \E a \in AdIds, u \in Callers : reactivate(a, u)
    \/ \E a \in AdIds, u \in Callers : delete_ad(a, u)
    \/ \E p \in Procs, m \in Users, a \in AdIds : approve_ad_select(p, m, a)
    \/ \E p \in Procs : approve_ad_commit(p)
    \/ \E p \in Procs : notify_ad_approved(p)
    \/ \E p \in Procs : notify_new_ad(p)

ViewSpec == Init /\ [][NextView]_vars

\* C20, step: the counter of an ad goes up by exactly 1 in a step of
\* increment_views on that ad and stays as it is in every other step;
\* increment_views runs for viewers other than the owner, and a view by
\* the owner ends without it.
C20_ViewStep ==
    /\ \A a \in AdIds :
          (ads[a] # NoAd /\ ads'[a] # NoAd) =>
              ads'[a].views_count =
                  ads[a].views_count +
                  (IF lastOp'.op = "increment_views" /\ lastOp'.ad = a THEN 1 ELSE 0)
    /\ lastOp'.op \in {"increment_views", "view_ad_select"} =>
          (ads[lastOp'.ad] # NoAd => lastOp'.viewer # ads[lastOp'.ad].owner_id)
    /\ (lastOp'.op = "view_ad" /\ lastOp'.ret) =>
          lastOp'.viewer = ads[lastOp'.ad].owner_id

\* C20: an ad's view counter never decreases; every view by a user other
\* than the owner adds exactly 1, also when views run concurrently; a view
\* by the owner and every other operation leave it as it is.
C20_ViewCounter == [][C20_ViewStep]_vars

\* one of two concurrent views has been counted while the other, which
\* loaded the ad with the old counter, has yet to run its increment
C20_Witness ==
    /\ lastOp.op = "increment_views"
    /\ ads[lastOp.ad] # NoAd
    /\ ads[lastOp.ad].views_count = 1
    /\ \E p \in Procs :
          /\ sess[p].pc = "increment"
          /\ sess[p].ad = lastOp.ad
          /\ sess[p].snap.views_count = 0

---------------------------------------------------------------------------
(* Events through DatabaseMiddleware (bot/middlewares/database.py): the    *)
(* middleware looks the sender up, answers a banned sender itself and      *)
(* otherwise calls the handler the routers selected                        *)

EventKinds == {"message", "callback_query"}

\* a middleware that answers only the Message of a banned sender
BanReply_message_only(kind) == kind = "message"

\* the isinstance chain under `if user and user.is_banned`: a Message and a
\* CallbackQuery are answered and the middleware returns
BanReply(kind) == kind = "message" \/ kind = "callback_query"

\* the event the middleware has passed and whose handler has yet to run
Pending(u, kind) ==
    /\ evt.n = ops
    /\ evt.pass
    /\ evt.user = u
    /\ evt.kind = kind

\* DatabaseMiddleware.__call__ up to the call of the handler:
\* get_or_create, then the ban check
middleware(u, kind) ==
    /\ ops < MaxEvents
    /\ evt.n # ops
    /\ users' = IF users[u] = NoUser THEN [users EXCEPT ![u] = UserRow(u)] ELSE users
    /\ IF users[u] # NoUser /\ users[u].is_banned /\ BanReply(kind)
       THEN /\ evt' = [n |-> ops, user |-> u, kind |-> kind, pass |-> FALSE]
            /\ ops' = ops + 1
            /\ lastOp' = [op |-> "blocked", ret |-> FALSE]
       ELSE /\ evt' = [n |-> ops, user |-> u, kind |-> kind, pass |-> TRUE]
            /\ ops' = ops
            /\ lastOp' = [op |-> "middleware", ret |-> TRUE]
    /\ UNCHANGED <<ads, adSeq, reports, reportSeq, subs, sess, hist, feedback,
                 search_results, today, fsm, user_last_request, now>>

\* UserService.ban_user: UPDATE users SET is_banned = ban WHERE id = t
ban_user(t, ban) == [users EXCEPT ![t].is_banned = ban]

\* /ban without the refusal for administrators
ban_user_command_any_user(m, t) ==
    /\ m \in admin_id_list
    /\ Tick
    /\ LET ok == users[t] # NoUser
       IN  /\ users' = IF ok THEN ban_user(t, TRUE) ELSE users
           /\ lastOp' = IF ok THEN [op |-> "ban_user", ret |-> TRUE, target |-> t]
                         ELSE [op |-> "ban_user", ret |-> FALSE, target |-> t]
    /\ UNCHANGED <<ads, adSeq, reports, reportSeq, subs, sess, hist,
                 feedback, evt,
                 search_results, today, fsm, user_last_request, now>>

\* /ban <telegram_id>, in the admin router (IsAdminFilter on messages):
\* unknown users and administrators are refused
ban_user_command(m, t) ==
    /\ m \in admin_id_list
    /\ Tick
    /\ LET ok == users[t] # NoUser /\ ~users[t].is_admin
       IN  /\ users' = IF ok THEN ban_user(t, TRUE) ELSE users
           /\ lastOp' = IF ok THEN [op |-> "ban_user", ret |-> TRUE, target |-> t]
                         ELSE [op |-> "ban_user", ret |-> FALSE, target |-> t]
    /\ UNCHANGED <<ads, adSeq, reports, reportSeq, subs, sess, hist,
                 feedback, evt,
                 search_results, today, fsm, user_last_request, now>>

\* /unban <telegram_id>, in the admin router
unban_user_command(m, t) ==
    /\ m \in admin_id_list
    /\ Tick
    /\ LET ok == users[t] # NoUser
       IN  /\ users' = IF ok THEN ban_user(t, FALSE) ELSE users
           /\ lastOp' = IF ok THEN [op |-> "unban_user", ret |-> TRUE, target |-> t]
                         ELSE [op |-> "unban_user", ret |-> FALSE]
    /\ UNCHANGED <<ads, adSeq, reports, reportSeq, subs, sess, hist,
                 feedback, evt,
                 search_results, today, fsm, user_last_request, now>>

\* the "reports" button, in the feedback router, which has no filter: the
\* handler lists get_pending_reports() to whoever sent the text
show_reports(u) ==
    /\ Tick
    /\ lastOp' = [op |-> "show_reports", ret |-> TRUE,
                  shown |-> {r \in DOMAIN reports :
                               reports[r] # NoReport /\ reports[r].status = R_PENDING}]
    /\ UNCHANGED <<ads, adSeq, reports, reportSeq, subs, sess, hist,
                 users, feedback, evt,
                 search_results, today, fsm, user_last_request, now>>

\* SubscriptionService.toggle_subscription: the row is looked up by id and
\* user_id, then is_active is set to the opposite of what was read
toggle_subscription(s, u) ==
    /\ Tick
    /\ LET ok == subs[s].user_id = u
       IN  /\ subs' = IF ok THEN [subs EXCEPT ![s].is_active = ~subs[s].is_active]
                      ELSE subs
           /\ lastOp' = IF ok THEN [op |-> "toggle_subscription", ret |-> TRUE, sub |-> s]
                         ELSE [op |-> "toggle_subscription", ret |-> FALSE]
    /\ UNCHANGED <<ads, adSeq, reports, reportSeq, sess, hist,
                 users, feedback, evt,
                 search_results, today, fsm, user_last_request, now>>

\* process_feedback_text: INSERT INTO feedbacks, ad_id None
process_feedback_text(u) ==
    /\ Tick
    /\ \E f \in FeedbackIds :
          /\ feedback[f] = NoFeedback
          /\ \A g \in FeedbackIds : g < f => feedback[g] # NoFeedback
          /\ feedback' = [feedback EXCEPT ![f] = FeedbackRow(NoneNum, u)]
          /\ lastOp' = [op |-> "process_feedback_text", ret |-> TRUE, feedback |-> f]
    \* state.clear()
    /\ search_results' = [search_results EXCEPT ![u] = <<>>]
    /\ UNCHANGED <<ads, adSeq, reports, reportSeq, subs, sess, hist,
                 users, evt, today, fsm, user_last_request, now>>

\* a handler that touches no record: cmd_help for a message, callback_noop
\* for a callback
cmd_help(u) ==
    /\ Tick
    /\ lastOp' = [op |-> "cmd_help", ret |-> TRUE]
    /\ UNCHANGED <<ads, adSeq, reports, reportSeq, subs, sess, hist,
                 users, feedback, evt,
                 search_results, today, fsm, user_last_request, now>>

\* an event reaches the middleware, or the handler of the event the
\* middleware passed runs, or a handler that is under way takes its next
\* step
NextGate ==
    \/ \E u \in Users, kind \in EventKinds : middleware(u, kind)
    \/ \E u \in Users, kind \in EventKinds : Pending(u, kind) /\ cmd_help(u)
    \/ \E u \in Owners, inp \in AdInputs : Pending(u, "message") /\ create(u, inp)
    \/ \E a \in AdIds, u \in Users, st \in {RENTED, CLOSED} :
          Pending(u, "callback_query") /\ set_status(a, u, st)
    \/ \E a \in AdIds, u \in Users :
          Pending(u, "callback_query") /\ delete_ad(a, u)
    \/ \E a \in AdIds, u \in Users :
          Pending(u, "message") /\ create_report(a, u, "spam", None)
    \/ \E s \in SubIds, u \in Users :
          Pending(u, "callback_query") /\ toggle_subscription(s, u)
    \/ \E u \in Users : Pending(u, "message") /\ process_feedback_text(u)
    \/ \E u \in Users : Pending(u, "message") /\ show_reports(u)
    \/ \E m, t \in Users : Pending(m, "message") /\ ban_user_command(m, t)
    \/ \E m, t \in Users : Pending(m, "message") /\ unban_user_command(m, t)
    \/ \E p \in Procs, m \in Users, a \in AdIds :
          Pending(m, "callback_query") /\ approve_ad_select(p, m, a)
    \/ \E p \in Procs : approve_ad_commit(p)
    \/ \E p \in Procs : notify_ad_approved(p)
    \/ \E p \in Procs : notify_new_ad(p)
    \/ \E p \in Procs, m \in Users, a \in AdIds, reason \in Reasons :
          Pending(m, "message") /\ reject_ad_select(p, m, a, reason)
    \/ \E p \in Procs : reject_ad_commit(p)
    \/ \E p \in Procs : notify_ad_rejected(p)

GateSpec == Init /\ [][NextGate]_vars

\* C15, step: when the middleware looks at a Message or CallbackQuery of
\* a banned sender it does not pass it, and no ad, report, feedback or
\* subscription changes; a handler starts only for an event the
\* middleware passed, whose sender is not banned.
C15_GateStep ==
    /\ (/\ evt' # evt
        /\ users[evt'.user] # NoUser
        /\ users[evt'.user].is_banned) =>
          /\ ~evt'.pass
          /\ ads' = ads
          /\ reports' = reports
          /\ feedback' = feedback
          /\ subs' = subs
    /\ (evt' = evt /\ ops' # ops) =>
          /\ evt.n = ops
          /\ evt.pass
          /\ users[evt.user] # NoUser
          /\ ~users[evt.user].is_banned

\* C15: from the first event after the ban until the unban, no event of a
\* banned user reaches a handler or changes an ad, a report, a feedback or
\* a subscription.
C15_BannedBlocked == [][C15_GateStep]_vars

\* a callback of a banned user who owns an ad has just been turned away
C15_Witness ==
    /\ lastOp.op = "blocked"
    /\ evt.kind = "callback_query"
    /\ users[evt.user].is_banned
    /\ \E a \in AdIds : ads[a] # NoAd /\ ads[a].owner_id = evt.user

\* C16: the handlers that approve or reject an ad, list the pending
\* reports, or ban or unban a user start only for events sent by a user of
\* the admin allow-list.
C16_AdminOnly ==
    [][(/\ evt' = evt
        /\ ops' # ops
        /\ \/ lastOp'.op \in {"approve_ad_select", "approve_ad", "reject_ad_select",
                              "reject_ad", "ban_user", "unban_user"}
           \/ lastOp'.op = "show_reports" /\ lastOp'.shown # {})
          => evt.user \in admin_id_list]_vars

---------------------------------------------------------------------------
(* AdService.update_ad: what it writes *)

\* the columns update_ad writes on success: the supplied allow-listed ones
\* and the two forced ones; updated_at is kept by the database
C21_Written(fields) ==
    (DOMAIN fields \cap {"title", "description", "price_per_day", "location",
                         "category", "contact_info", "photo_id"})
        \cup {"status", "rejection_reason"}

C21_UpdateStep ==
    \A a \in AdIds, u \in Callers, fields \in EditInputs :
        update_ad(a, u, fields) =>
            IF /\ ads[a] # NoAd
               /\ ads[a].owner_id = u
               /\ C21_Written(fields) # {"status", "rejection_reason"}
            THEN /\ lastOp'.ret
                 /\ \A b \in AdIds \ {a} : ads'[b] = ads[b]
                 /\ DOMAIN ads'[a] = DOMAIN ads[a]
                 /\ \A k \in DOMAIN ads[a] \ {"updated_at"} :
                       ads'[a][k] =
                         IF k = "status" THEN PENDING
                         ELSE IF k = "rejection_reason" THEN None
                         ELSE IF k \in C21_Written(fields) THEN fields[k]
                         ELSE ads[a][k]
            ELSE /\ ~lastOp'.ret
                 /\ ads' = ads

\* C21: update_ad by a user who is not the owner, on a missing ad or with no
\* allow-listed field returns false and changes nothing; a successful
\* update_ad writes only the supplied allow-listed columns plus status and
\* rejection_reason, never owner_id, views_count or a supplied column
\* outside the allow-list.
C21_UpdateFrame == [][C21_UpdateStep]_vars

\* the owner's edit that supplied price_per_day and owner_id has been
\* applied: the price is the new one, the owner is still the owner
C21_Witness ==
    /\ lastOp.op = "update_ad"
    /\ lastOp.ret
    /\ ads[lastOp.ad].price_per_day = 400
    /\ ads[lastOp.ad].owner_id = 1

---------------------------------------------------------------------------
(* AdService.search and the paging of stored search results, over tables   *)
(* of ads in every status                                                  *)

MaxSearchAds == 2    \* ads in the tables search is tried on
MaxSearchOps == 4    \* calls started in one behaviour over those tables
SearchAdIds == 1..MaxSearchAds
per_page == 5

\* the arguments of AdService.search; none of the strings holds a LIKE
\* wildcard
SearchQueries ==
    [keywords : {NoneStr, <<"R", "x">>},
     location : {NoneStr, <<"m">>},
     category : {None, "Sport"},
     min_price : {NoneNum, 500},
     max_price : {NoneNum, 500},
     limit : {1, 50},
     offset : {0}]

InitSearch ==
    /\ \E inp \in AdInputs :
          ads \in [SearchAdIds ->
                     {[AdRow(1, inp) EXCEPT !.status = st, !.price_per_day = pr,
                                            !.created_at = c,
                                            !.rejection_reason =
                                               IF st = REJECTED THEN "reason_a" ELSE None] :
                        st \in AdStatus, pr \in {400, 500, 600}, c \in SearchAdIds}]
    /\ \A a \in SearchAdIds : ads[a].created_at = a
    /\ ads[1].price_per_day = 500
    /\ ads[2].price_per_day # 500
    /\ adSeq = MaxSearchAds
    /\ reports = [r \in ReportIds |-> NoReport]
    /\ reportSeq = 0
    /\ subs = [s \in SubIds |-> SubTable(s)]
    /\ sess = [p \in Procs |-> Idle]
    /\ hist = [a \in AdIds |-> NoHist]
    /\ lastOp = [op |-> "init"]
    /\ ops = 0
    /\ users = [u \in Users |-> UserRow(u)]
    /\ feedback = [f \in FeedbackIds |-> NoFeedback]
    /\ evt = NoEvent
    /\ search_results = [u \in Users |-> <<>>]
    /\ today = 0
    /\ fsm = [u \in Users |-> NoFsm]
    /\ user_last_request = NoRequests
    /\ now = StartTime

\* LIMIT limit OFFSET offset, and the Python slice seq[offset:offset+limit]
slice(seq, offset, limit) ==
    SubSeq(seq, offset + 1,
           IF offset + limit < Len(seq) THEN offset + limit ELSE Len(seq))

\* a WHERE clause with no condition on the status
search_where_any_status(a, q) ==
    /\ ads[a] # NoAd
    /\ truthy_str(q.keywords) =>
          \/ contains(lower(q.keywords), lower(ads[a].title))
          \/ contains(lower(q.keywords), lower(ads[a].description))
    /\ truthy_str(q.location) => contains(lower(q.location), lower(ads[a].location))
    /\ truthy_tok(q.category) => ads[a].category = q.category
    /\ q.min_price # NoneNum => ads[a].price_per_day >= q.min_price
    /\ q.max_price # NoneNum => ads[a].price_per_day <= q.max_price

\* the WHERE clause AdService.search builds
search_where(a, q) ==
    /\ ads[a] # NoAd
    /\ ads[a].status = ACTIVE
    /\ truthy_str(q.keywords) =>
          \/ contains(lower(q.keywords), lower(ads[a].title))
          \/ contains(lower(q.keywords), lower(ads[a].description))
    /\ truthy_str(q.location) => contains(lower(q.location), lower(ads[a].location))
    /\ truthy_tok(q.category) => ads[a].category = q.category
    /\ q.min_price # NoneNum => ads[a].price_per_day >= q.min_price
    /\ q.max_price # NoneNum => ads[a].price_per_day <= q.max_price

\* AdService.search: one SELECT
search(q) ==
    slice(by_created_desc({a \in DOMAIN ads : search_where(a, q)}),
          q.offset, q.limit)

call_search(q) ==
    /\ Tick
    /\ lastOp' = [op |-> "search", q |-> q, ret |-> search(q)]
    /\ UNCHANGED <<ads, adSeq, reports, reportSeq, subs, sess, hist,
                 users, feedback, evt, search_results, today, fsm, user_last_request, now>>

\* process_price_search and show_search_results: the ids found are stored
\* under the FSM key search_results (an empty result ends in state.clear())
process_price_search(u, price) ==
    /\ Tick
    /\ price > 0
    /\ LET found == search([keywords |-> NoneStr, location |-> NoneStr,
                            category |-> None, min_price |-> NoneNum,
                            max_price |-> price, limit |-> 50, offset |-> 0])
       IN  /\ search_results' = [search_results EXCEPT ![u] = found]
           /\ lastOp' = [op |-> "process_price_search", ret |-> found]
    /\ UNCHANGED <<ads, adSeq, reports, reportSeq, subs, sess, hist,
                 users, feedback, evt, today, fsm, user_last_request, now>>

\* change_search_page up to the loop: state.get_data()
change_search_page(p, u, page) ==
    /\ Tick
    /\ FreeSlot(p)
    /\ IF search_results[u] = <<>>
       THEN /\ lastOp' = [op |-> "change_search_page", ret |-> FALSE]
            /\ UNCHANGED sess
       ELSE /\ sess' = [sess EXCEPT ![p] =
                          [pc |-> "page", user |-> u, page |-> page,
                           stored |-> search_results[u],
                           rest |-> search_results[u], found |-> <<>>]]
            /\ lastOp' = [op |-> "change_search_page_select", ret |-> TRUE]
    /\ UNCHANGED <<ads, adSeq, reports, reportSeq, subs, hist,
                 users, feedback, evt, search_results, today, fsm, user_last_request, now>>

\* one turn of the loop of change_search_page: get_by_id, then the
\* is_active test; after the last turn the page is cut and shown
change_search_page_get(p) ==
    /\ sess[p].pc = "page"
    /\ LET a == Head(sess[p].rest)
           found == IF ads[a] # NoAd /\ ads[a].status = ACTIVE
                    THEN Append(sess[p].found, a) ELSE sess[p].found
           start == (sess[p].page - 1) * per_page
       IN  IF Len(sess[p].rest) > 1
           THEN /\ sess' = [sess EXCEPT ![p].rest = Tail(@), ![p].found = found]
                /\ lastOp' = [op |-> "change_search_page_get", ret |-> TRUE]
           ELSE /\ sess' = [sess EXCEPT ![p] = Idle]
                /\ lastOp' = [op |-> "change_search_page", ret |-> TRUE,
                              stored |-> sess[p].stored, found |-> found,
                              page_ads |-> slice(found, start, per_page)]
    /\ UNCHANGED <<ads, adSeq, reports, reportSeq, subs, hist, ops,
                 users, feedback, evt, search_results, today, fsm, user_last_request, now>>

\* a call starts while the budget of calls lasts; a page that is being
\* built goes on
SearchBudget == ops < MaxSearchOps

NextSearch ==
    \/ SearchBudget /\ \E q \in SearchQueries : call_search(q)
    \/ SearchBudget /\ \E u \in {2}, price \in {500, 600} : process_price_search(u, price)
    \/ SearchBudget /\ \E p \in Procs, u \in {2}, page \in {1, 2} :
                          change_search_page(p, u, page)
    \/ \E p \in Procs : change_search_page_get(p)
    \/ SearchBudget /\ \E a \in SearchAdIds, u \in Owners, st \in {RENTED, CLOSED} :
                          set_status(a, u, st)
    \/ SearchBudget /\ \E a \in SearchAdIds, u \in Owners : reactivate(a, u)
    \/ SearchBudget /\ \E a \in SearchAdIds, u \in Owners : delete_ad(a, u)

SearchSpec == InitSearch /\ [][NextSearch]_vars

\* what the claim asks of an ad for a query: ACTIVE, the text filters, and
\* the price between the bounds, the bounds included
C22_Wanted(a, q) ==
    /\ ads[a] # NoAd
    /\ ads[a].status = ACTIVE
    /\ truthy_str(q.keywords) =>
          \/ contains(lower(q.keywords), lower(ads[a].title))
          \/ contains(lower(q.keywords), lower(ads[a].description))
    /\ truthy_str(q.location) => contains(lower(q.location), lower(ads[a].location))
    /\ truthy_tok(q.category) => ads[a].category = q.category
    /\ q.min_price # NoneNum =>
          (ads[a].price_per_day = q.min_price \/ ads[a].price_per_day > q.min_price)
    /\ q.max_price # NoneNum =>
          (ads[a].price_per_day = q.max_price \/ ads[a].price_per_day < q.max_price)

\* the result of a search holds only ACTIVE ads, and without paging it
\* holds every ACTIVE ad that passes the filters, those priced at a bound
\* included; the page shown is cut from the ads found
C22_SearchResult ==
    /\ lastOp.op = "search" =>
          /\ \A i \in DOMAIN lastOp.ret : C22_Wanted(lastOp.ret[i], lastOp.q)
          /\ (lastOp.q.offset = 0 /\ lastOp.q.limit >= MaxSearchAds) =>
                \A a \in SearchAdIds :
                    C22_Wanted(a, lastOp.q) =>
                        \E i \in DOMAIN lastOp.ret : lastOp.ret[i] = a
    /\ lastOp.op = "process_price_search" =>
          \A i \in DOMAIN lastOp.ret : ads[lastOp.ret[i]].status = ACTIVE
    /\ (lastOp.op = "change_search_page" /\ lastOp.ret) =>
          /\ \A i \in DOMAIN lastOp.page_ads :
                \E j \in DOMAIN lastOp.found : lastOp.found[j] = lastOp.page_ads[i]
          /\ \A i \in DOMAIN lastOp.found :
                \E j \in DOMAIN lastOp.stored : lastOp.stored[j] = lastOp.found[i]

\* paging keeps a stored ad exactly when the ad is ACTIVE as it is read
C22_PageStep ==
    \A p \in Procs :
        (sess[p].pc = "page" /\ sess'[p] # sess[p]) =>
            LET a == Head(sess[p].rest)
                found == IF sess'[p] = Idle THEN lastOp'.found ELSE sess'[p].found
            IN  found = IF ads[a] # NoAd /\ ads[a].status = ACTIVE
                        THEN Append(sess[p].found, a)
                        ELSE sess[p].found

\* C22: search returns only ads that are ACTIVE at query time, for every
\* combination of filters; a set min_price or max_price includes the ads
\* priced exactly at the bound; paging through stored results drops every
\* ad that is no longer ACTIVE.
C22_SearchActiveOnly == []C22_SearchResult /\ [][C22_PageStep]_vars

\* a page has been shown from which one of two stored ads was dropped
C22_Witness ==
    /\ lastOp.op = "change_search_page"
    /\ lastOp.ret
    /\ Len(lastOp.stored) = 2
    /\ Len(lastOp.found) = 1
    /\ ads[lastOp.found[1]].price_per_day = 500

---------------------------------------------------------------------------
(* The moderation queue: handlers show_moderation_queue, approve_ad and    *)
(* process_rejection_reason over tables of two ads                         *)

MaxQueueAds == 2     \* ads in the tables the queue is read from
MaxQueueOps == 4     \* calls started in one behaviour over those tables
QueueAdIds == 1..MaxQueueAds

\* an ad of owner 1 in status st, created at time c
StoredAd(inp, st, c) ==
    [AdRow(1, inp) EXCEPT !.status = st, !.created_at = c,
                          !.rejection_reason = IF st = REJECTED THEN "reason_a" ELSE None]

\* the creation times need not follow the ids: created_at is the start of
\* the inserting transaction
InitQueue ==
    /\ \E inp \in AdInputs :
          ads \in [QueueAdIds -> {StoredAd(inp, st, c) : st \in AdStatus, c \in QueueAdIds}]
    /\ \A a, b \in QueueAdIds : ads[a].created_at = ads[b].created_at => a = b
    /\ adSeq = MaxQueueAds
    /\ reports = [r \in ReportIds |-> NoReport]
    /\ reportSeq = 0
    /\ subs = [s \in SubIds |-> SubTable(s)]
    /\ sess = [p \in Procs |-> Idle]
    /\ hist = [a \in QueueAdIds |-> NoHist]
    /\ lastOp = [op |-> "init"]
    /\ ops = 0
    /\ users = [u \in Users |-> UserRow(u)]
    /\ feedback = [f \in FeedbackIds |-> NoFeedback]
    /\ evt = NoEvent
    /\ search_results = [u \in Users |-> <<>>]
    /\ today = 0
    /\ fsm = [u \in Users |-> NoFsm]
    /\ user_last_request = NoRequests
    /\ now = StartTime

\* show_moderation_queue: state.clear(), get_pending_ads, then the head
\* goes to show_ad_for_moderation
show_moderation_queue(m) ==
    /\ Tick
    /\ m \in admin_id_list
    /\ search_results' = state_clear(m)
    /\ lastOp' = [op |-> "show_moderation_queue", then |-> Presented(TRUE)]
    /\ UNCHANGED <<ads, adSeq, reports, reportSeq, subs, sess, hist,
                 users, feedback, evt, today, fsm, user_last_request, now>>

QueueBudget == ops < MaxQueueOps

NextQueue ==
    \/ QueueBudget /\ \E m \in admin_id_list : show_moderation_queue(m)
    \/ QueueBudget /\ \E p \in Procs, m \in admin_id_list, a \in QueueAdIds :
                         approve_ad_select(p, m, a)
    \/ \E p \in Procs : approve_ad_commit(p)
    \/ \E p \in Procs : notify_ad_approved(p)
    \/ \E p \in Procs : notify_new_ad(p)
    \/ QueueBudget /\ \E p \in Procs, m \in admin_id_list, a \in QueueAdIds, rs \in Reasons :
                         reject_ad_select(p, m, a, rs)
    \/ \E p \in Procs : reject_ad_commit(p)
    \/ \E p \in Procs : notify_ad_rejected(p)
    \/ QueueBudget /\ \E a \in QueueAdIds, u \in Owners, f \in EditInputs : update_ad(a, u, f)

QueueSpec == InitQueue /\ [][NextQueue]_vars

\* q lists exactly the PENDING ads, each once, the oldest first
C23_IsQueue(q) ==
    /\ \A a \in DOMAIN ads :
          (ads[a] # NoAd /\ ads[a].status = PENDING) <=> \E i \in DOMAIN q : q[i] = a
    /\ \A i, j \in DOMAIN q : i < j => ads[q[i]].created_at < ads[q[j]].created_at

\* C23: the moderation queue is exactly the PENDING ads, oldest creation
\* time first, and the ad shown to a moderator on opening the queue or
\* after approving or rejecting is the head of the queue as fetched at
\* that moment.
C23_HeadOfQueue ==
    (/\ lastOp.op \in {"show_moderation_queue", "notify_new_ad", "notify_ad_rejected"}
     /\ lastOp.then.next) =>
        /\ C23_IsQueue(lastOp.then.queue)
        /\ lastOp.then.shown =
              IF lastOp.then.queue = <<>> THEN NoneNum ELSE lastOp.then.queue[1]
        /\ \A a \in DOMAIN ads :
              (/\ ads[a] # NoAd
               /\ ads[a].status = PENDING
               /\ \A b \in DOMAIN ads :
                     (ads[b] # NoAd /\ ads[b].status = PENDING) =>
                         ads[a].created_at <= ads[b].created_at)
                => lastOp.then.shown = a

\* after an approval the moderator is shown the other ad, the older of two
\* PENDING ads, whose id is the larger one
C23_Witness ==
    /\ lastOp.op = "notify_new_ad"
    /\ lastOp.then.next
    /\ Len(lastOp.then.queue) = 2
    /\ lastOp.then.shown = 2

---------------------------------------------------------------------------
(* UserService.get_or_create over the users table keyed by row id: the     *)
(* SELECT by telegram_id, then the commit that flushes an UPDATE or an     *)
(* INSERT                                                                  *)

MaxUserRows == 3     \* ids the users table may allocate
MaxUserOps == 4      \* calls started in one behaviour over that table
UserRowIds == 1..MaxUserRows

\* from_user of an event: id, username (None when the user has none) and
\* full_name
TgIds == {1, 2}
Usernames == {None, "ann", "anna"}
FullNames == {"Ann", "Ann B"}

InitUsers ==
    /\ ads = [a \in AdIds |-> NoAd]
    /\ adSeq = 0
    /\ reports = [r \in ReportIds |-> NoReport]
    /\ reportSeq = 0
    /\ subs = [s \in SubIds |-> SubTable(s)]
    /\ sess = [p \in Procs |-> Idle]
    /\ hist = [a \in AdIds |-> NoHist]
    /\ lastOp = [op |-> "init"]
    /\ ops = 0
    /\ users = [r \in UserRowIds |-> NoUser]
    /\ feedback = [f \in FeedbackIds |-> NoFeedback]
    /\ evt = NoEvent
    /\ search_results = [u \in Users |-> <<>>]
    /\ today = 0
    /\ fsm = [u \in Users |-> NoFsm]
    /\ user_last_request = NoRequests
    /\ now = StartTime

\* get_by_telegram_id: the rows the SELECT returns
get_by_telegram_id(t) ==
    {r \in DOMAIN users : users[r] # NoUser /\ users[r].telegram_id = t}

\* the attributes get_or_create assigns to the loaded user
UserChanges(row, username, full_name) ==
    LET un == truthy_tok(username) /\ row.username # username
        fn == truthy_tok(full_name) /\ row.full_name # full_name
    IN  [k \in (IF un THEN {"username"} ELSE {}) \cup
               (IF fn THEN {"full_name"} ELSE {}) |->
            IF k = "username" THEN username ELSE full_name]

\* get_or_create up to its first commit: the SELECT, and for an existing
\* user the comparison of the two attributes; without a change it returns
get_or_create_select(p, t, username, full_name) ==
    /\ Tick
    /\ FreeSlot(p)
    /\ IF get_by_telegram_id(t) = {}
       THEN /\ sess' = [sess EXCEPT ![p] =
                          [pc |-> "user_insert", telegram_id |-> t,
                           username |-> username, full_name |-> full_name]]
            /\ lastOp' = [op |-> "get_or_create_select", ret |-> FALSE]
       ELSE LET r == CHOOSE x \in get_by_telegram_id(t) : TRUE
                set == UserChanges(users[r], username, full_name)
            IN  IF DOMAIN set = {}
                THEN /\ UNCHANGED sess
                     /\ lastOp' = [op |-> "get_or_create", ret |-> "user",
                                   created |-> FALSE, row |-> r, before |-> users[r],
                                   username |-> username, full_name |-> full_name]
                ELSE /\ sess' = [sess EXCEPT ![p] =
                                   [pc |-> "user_update", row |-> r, set |-> set,
                                    snap |-> users[r],
                                    username |-> username, full_name |-> full_name]]
                     /\ lastOp' = [op |-> "get_or_create_select", ret |-> TRUE]
    /\ UNCHANGED <<ads, adSeq, reports, reportSeq, subs, hist,
                 users, feedback, evt, search_results, today, fsm, user_last_request, now>>

\* a flush that writes every column of the loaded object
get_or_create_update_all_columns(p) ==
    /\ sess[p].pc = "user_update"
    /\ users' = [users EXCEPT ![sess[p].row] = ApplyValues(sess[p].snap, sess[p].set)]
    /\ sess' = [sess EXCEPT ![p] = Idle]
    /\ lastOp' = [op |-> "get_or_create", ret |-> "user", created |-> FALSE,
                  row |-> sess[p].row, before |-> users[sess[p].row],
                  username |-> sess[p].username, full_name |-> sess[p].full_name]
    /\ UNCHANGED <<ads, adSeq, reports, reportSeq, subs, hist, ops,
                 feedback, evt, search_results, today, fsm, user_last_request, now>>

\* the commit for an existing user: the flush is UPDATE users SET the
\* changed attributes WHERE id = row
get_or_create_update(p) ==
    /\ sess[p].pc = "user_update"
    /\ users' = [users EXCEPT ![sess[p].row] = ApplyValues(@, sess[p].set)]
    /\ sess' = [sess EXCEPT ![p] = Idle]
    /\ lastOp' = [op |-> "get_or_create", ret |-> "user", created |-> FALSE,
                  row |-> sess[p].row, before |-> users[sess[p].row],
                  username |-> sess[p].username, full_name |-> sess[p].full_name]
    /\ UNCHANGED <<ads, adSeq, reports, reportSeq, subs, hist, ops,
                 feedback, evt, search_results, today, fsm, user_last_request, now>>

\* the row the INSERT of get_or_create writes
NewUser(t, username, full_name) ==
    [telegram_id |-> t, username |-> username, full_name |-> full_name,
     is_admin |-> t \in admin_id_list, is_banned |-> FALSE]

\* an INSERT into a table without the unique index on telegram_id
get_or_create_insert_no_index(p) ==
    /\ sess[p].pc = "user_insert"
    /\ \E r \in DOMAIN users :
          /\ users[r] = NoUser
          /\ \A q \in DOMAIN users : q < r => users[q] # NoUser
          /\ users' = [users EXCEPT ![r] =
                         NewUser(sess[p].telegram_id, sess[p].username,
                                 sess[p].full_name)]
          /\ lastOp' = [op |-> "get_or_create", ret |-> "user",
                        created |-> TRUE, row |-> r,
                        username |-> sess[p].username,
                        full_name |-> sess[p].full_name]
    /\ sess' = [sess EXCEPT ![p] = Idle]
    /\ UNCHANGED <<ads, adSeq, reports, reportSeq, subs, hist, ops,
                 feedback, evt, search_results, today, fsm, user_last_request, now>>

\* the commit for a new user: INSERT; the unique index on telegram_id
\* refuses a second row for the id with IntegrityError
get_or_create_insert(p) ==
    /\ sess[p].pc = "user_insert"
    /\ IF get_by_telegram_id(sess[p].telegram_id) # {}
       THEN /\ UNCHANGED users
            /\ lastOp' = [op |-> "get_or_create", ret |-> "error",
                          telegram_id |-> sess[p].telegram_id]
       ELSE \E r \in DOMAIN users :
               /\ users[r] = NoUser
               /\ \A q \in DOMAIN users : q < r => users[q] # NoUser
               /\ users' = [users EXCEPT ![r] =
                              NewUser(sess[p].telegram_id, sess[p].username,
                                      sess[p].full_name)]
               /\ lastOp' = [op |-> "get_or_create", ret |-> "user",
                             created |-> TRUE, row |-> r,
                             username |-> sess[p].username,
                             full_name |-> sess[p].full_name]
    /\ sess' = [sess EXCEPT ![p] = Idle]
    /\ UNCHANGED <<ads, adSeq, reports, reportSeq, subs, hist, ops,
                 feedback, evt, search_results, today, fsm, user_last_request, now>>

UserBudget == ops < MaxUserOps

NextUsers ==
    \/ UserBudget /\ \E p \in Procs, t \in TgIds, un \in Usernames, fn \in FullNames :
                        get_or_create_select(p, t, un, fn)
    \/ \E p \in Procs : get_or_create_update(p)
    \/ \E p \in Procs : get_or_create_insert(p)
    \/ UserBudget /\ \E m \in admin_id_list, r \in UserRowIds : ban_user_command(m, r)
    \/ UserBudget /\ \E m \in admin_id_list, r \in UserRowIds : unban_user_command(m, r)

UserSpec == InitUsers /\ [][NextUsers]_vars

\* every step leaves the flags of an existing user alone, but for a ban or
\* an unban; a new row comes from get_or_create with is_admin read off the
\* allow-list
C24_FlagsStep ==
    \A r \in UserRowIds :
        /\ users[r] # NoUser =>
              /\ users'[r] # NoUser
              /\ users'[r].is_admin = users[r].is_admin
              /\ users'[r].is_banned # users[r].is_banned =>
                    lastOp'.op \in {"ban_user", "unban_user"}
        /\ (users[r] = NoUser /\ users'[r] # NoUser) =>
              /\ lastOp'.op = "get_or_create"
              /\ users'[r].is_admin = (users'[r].telegram_id \in admin_id_list)

\* C24: get_or_create on an existing user never changes the user's
\* is_admin or is_banned; is_admin is set only when the record is created,
\* to true exactly when the external id is in the admin allow-list.
C24_FlagsKept == [][C24_FlagsStep]_vars

\* get_or_create has just rewritten the name of a banned user
C24_Witness ==
    /\ lastOp.op = "get_or_create"
    /\ lastOp.ret = "user"
    /\ ~lastOp.created
    /\ users[lastOp.row] # lastOp.before
    /\ users[lastOp.row].is_banned

\* C25: after get_or_create on an existing user the stored display name is
\* the supplied one and the stored handle is the supplied one, an absent
\* handle included.
C25_NamesRefreshed ==
    (lastOp.op = "get_or_create" /\ lastOp.ret = "user" /\ ~lastOp.created) =>
        /\ users[lastOp.row].full_name = lastOp.full_name
        /\ users[lastOp.row].username = lastOp.username

\* no two rows hold the same telegram_id
C26_Unique ==
    \A r, q \in UserRowIds :
        (users[r] # NoUser /\ users[q] # NoUser
           /\ users[r].telegram_id = users[q].telegram_id) => r = q

\* a row stays, and keeps its telegram_id
C26_IdStep ==
    \A r \in UserRowIds :
        users[r] # NoUser =>
            users'[r] # NoUser /\ users'[r].telegram_id = users[r].telegram_id

\* C26: there is at most one user record per external id, also when two
\* first events of one id are resolved together; a stored external id
\* never changes.
C26_OneRecordPerId == []C26_Unique /\ [][C26_IdStep]_vars

\* the second of two first events of one id has been refused by the unique
\* index, and the id has its one row
C26_Witness ==
    /\ lastOp.op = "get_or_create"
    /\ lastOp.ret = "error"
    /\ Cardinality(get_by_telegram_id(lastOp.telegram_id)) = 1

---------------------------------------------------------------------------
(* Rejecting through the handler: process_rejection_reason checks the text *)
(* of the moderator's message before ModerationService.reject_ad is called *)

MaxRejectOps == 5    \* calls started in one behaviour of the reject flow

\* message.text of the moderator's message: None for a message without
\* text
MessageTexts == {None, "", "     ", "bad", "spam ad", "  spam ad ", "reason_a"}

\* the characters of a text
chars(text) ==
    CASE text = "" -> <<>>
      [] text = "     " -> <<" ", " ", " ", " ", " ">>
      [] text = "bad" -> <<"b", "a", "d">>
      [] text = "spam ad" -> <<"s", "p", "a", "m", " ", "a", "d">>
      [] text = "  spam ad " -> <<" ", " ", "s", "p", "a", "m", " ", "a", "d", " ">>
      [] text = "reason_a" -> <<"r", "e", "a", "s", "o", "n", "_", "a">>

\* the text with the given characters
text_of(cs) == CHOOSE t \in MessageTexts \ {None} : chars(t) = cs

\* str.strip()
RECURSIVE lstrip(_)
lstrip(cs) == IF cs # <<>> /\ Head(cs) = " " THEN lstrip(Tail(cs)) ELSE cs

RECURSIVE rstrip(_)
rstrip(cs) ==
    IF cs # <<>> /\ cs[Len(cs)] = " " THEN rstrip(SubSeq(cs, 1, Len(cs) - 1)) ELSE cs

strip(cs) == rstrip(lstrip(cs))

\* a check that lets every text through
reason_too_short_never(reason) == FALSE

\* len(reason) < 5
reason_too_short(reason) == Len(reason) < 5

\* process_rejection_reason up to the SELECT of reject_ad.  a is the id
\* under the FSM key rejecting_ad_id, which start_reject_ad takes from the
\* callback data: any ad id.
process_rejection_reason(p, m, a, text) ==
    IF text = None
    THEN \* message.text.strip() raises AttributeError
         /\ Tick
         /\ FreeSlot(p)
         /\ m \in admin_id_list
         /\ lastOp' = [op |-> "process_rejection_reason", ret |-> "error", ad |-> a]
         /\ UNCHANGED <<ads, adSeq, reports, reportSeq, subs, sess, hist,
                      users, feedback, evt, search_results, today, fsm, user_last_request, now>>
    ELSE IF reason_too_short(strip(chars(text)))
    THEN /\ Tick
         /\ FreeSlot(p)
         /\ m \in admin_id_list
         /\ lastOp' = [op |-> "process_rejection_reason", ret |-> "short", ad |-> a]
         /\ UNCHANGED <<ads, adSeq, reports, reportSeq, subs, sess, hist,
                      users, feedback, evt, search_results, today, fsm, user_last_request, now>>
    ELSE reject_ad_select(p, m, a, text_of(strip(chars(text))))

RejectBudget == ops < MaxRejectOps

NextReject ==
    \/ RejectBudget /\ \E u \in Owners, inp \in AdInputs : create(u, inp)
    \/ RejectBudget /\ \E a \in AdIds, u \in Owners, f \in EditInputs : update_ad(a, u, f)
    \/ RejectBudget /\ \E a \in AdIds, u \in Owners : delete_ad(a, u)
    \/ RejectBudget /\ \E p \in Procs, m \in admin_id_list, a \in AdIds, text \in MessageTexts :
                          process_rejection_reason(p, m, a, text)
    \/ \E p \in Procs : reject_ad_commit(p)
    \/ \E p \in Procs : notify_ad_rejected(p)
    \/ RejectBudget /\ \E p \in Procs, m \in admin_id_list, a \in AdIds :
                          approve_ad_select(p, m, a)
    \/ \E p \in Procs : approve_ad_commit(p)
    \/ \E p \in Procs : notify_ad_approved(p)
    \/ \E p \in Procs : notify_new_ad(p)

RejectSpec == Init /\ [][NextReject]_vars

\* a REJECTED ad carries a reason with at least one character
C27_RejectedHasReason ==
    \A a \in AdIds :
        (ads[a] # NoAd /\ ads[a].status = REJECTED) =>
            /\ ads[a].rejection_reason # None
            /\ Len(chars(ads[a].rejection_reason)) > 0

\* a message whose text, stripped, has fewer than five characters, or that
\* has no text, changes no ad
C27_ShortStep ==
    \A p \in Procs, m \in admin_id_list, a \in AdIds, text \in MessageTexts :
        (/\ process_rejection_reason(p, m, a, text)
         /\ (text = None \/ Len(strip(chars(text))) < 5)) =>
              /\ ads' = ads
              /\ sess' = sess

\* C27: an ad with status REJECTED has a non-empty rejection_reason, and a
\* rejection attempt with an empty or too short reason leaves the ad
\* PENDING.
C27_ReasonRequired == []C27_RejectedHasReason /\ [][C27_ShortStep]_vars

\* the ad was rejected with the stripped text of the message as reason
C27_Witness ==
    /\ lastOp.op = "reject_ad"
    /\ lastOp.ret = "ad"
    /\ ads[lastOp.ad].status = REJECTED
    /\ ads[lastOp.ad].rejection_reason = "spam ad"

---------------------------------------------------------------------------
(* utils/validators.py: validate_title and validate_price, applied to      *)
(* message texts given as sequences of characters                          *)

\* a title of n letters without a repeated run
AB(n) == [i \in 1..n |-> IF i % 2 = 1 THEN "a" ELSE "b"]

\* message.text for the title: plain titles of the lengths around both
\* bounds, titles with blanks to squeeze, and titles the spam patterns
\* catch
TitleInputs ==
    { <<>>, <<" ", " ", " ">>,
      AB(1), AB(2), AB(3), AB(4), AB(199), AB(200), AB(201), AB(202),
      <<" ">> \o AB(2), <<" ">> \o AB(3) \o <<"\n">>,
      <<"a", " ", " ", "b">>,
      AB(100) \o <<" ", " ">> \o AB(99),
      AB(100) \o <<" ">> \o AB(100),
      [i \in 1..200 |-> "a"],
      <<"a", "A", "a", "A", "a", "A">>,
      <<"H", "t", "t", "p", ":", "/", "/", "x">>,
      <<"t", ".", "m", "e", "/", "x">> }

IsSpace(c) == c \in {" ", "\n", "\t"}

\* ' '.join(title.split()): the words of the title, one blank between
\* two of them (a blank run is kept, as one blank, where a word stands
\* before it and a word follows it)
join_split(cs) ==
    LET keep(i) == \/ ~IsSpace(cs[i])
                   \/ /\ i > 1 /\ ~IsSpace(cs[i - 1])
                      /\ \E j \in (i + 1)..Len(cs) : ~IsSpace(cs[j])
        kept == SelectSeq([i \in DOMAIN cs |-> i], keep)
    IN  [k \in DOMAIN kept |-> IF IsSpace(cs[kept[k]]) THEN " " ELSE cs[kept[k]]]

\* re.IGNORECASE over the letters the inputs use
fold(c) ==
    CASE c = "A" -> "a"
      [] c = "H" -> "h"
      [] c = "T" -> "t"
      [] OTHER -> c

\* the spam_patterns: (.)\1{5,}, https?://, t\.me/
spam(cs) ==
    LET low == [i \in DOMAIN cs |-> fold(cs[i])]
    IN  \/ \E i \in 1..(Len(low) - 5) : \A j \in 1..5 : low[i + j] = low[i]
        \/ contains(<<"h", "t", "t", "p", ":", "/", "/">>, low)
        \/ contains(<<"h", "t", "t", "p", "s", ":", "/", "/">>, low)
        \/ contains(<<"t", ".", "m", "e", "/">>, low)

\* a length test that shuts both bounds out
title_length_bad_at_bounds(cleaned) == Len(cleaned) <= 3 \/ Len(cleaned) >= 200

\* len(cleaned) < 3 or len(cleaned) > 200
title_length_bad(cleaned) == Len(cleaned) < 3 \/ Len(cleaned) > 200

\* validate_title: the cleaned title, or None
validate_title(title) ==
    IF title = <<>> THEN NoneStr
    ELSE LET cleaned == join_split(title)
         IN  IF title_length_bad(cleaned) THEN NoneStr
             ELSE IF spam(cleaned) THEN NoneStr
             ELSE cleaned

\* message.text for the price, each with the number it writes: sign,
\* whole part and thousandths (whole -1: not a number)
PriceInputs ==
    { [text |-> <<"1", "0", "0", "0", "0", "0", "0", "0">>, neg |-> FALSE, whole |-> 10000000, milli |-> 0],
      [text |-> <<"1", "0", "0", "0", "0", "0", "0", "0", ".", "0", "0">>, neg |-> FALSE, whole |-> 10000000, milli |-> 0],
      [text |-> <<"1", "0", " ", "0", "0", "0", " ", "0", "0", "0", " ", "rub_sign">>, neg |-> FALSE, whole |-> 10000000, milli |-> 0],
      [text |-> <<"1", "0", "0", "0", "0", "0", "0", "0", ".", "0", "1">>, neg |-> FALSE, whole |-> 10000000, milli |-> 10],
      [text |-> <<"1", "0", "0", "0", "0", "0", "0", "0", ",", "0", "0", "1">>, neg |-> FALSE, whole |-> 10000000, milli |-> 1],
      [text |-> <<"1", "0", "0", "0", "0", "0", "0", "1">>, neg |-> FALSE, whole |-> 10000001, milli |-> 0],
      [text |-> <<"9", "9", "9", "9", "9", "9", "9", "9">>, neg |-> FALSE, whole |-> 99999999, milli |-> 0],
      [text |-> <<"0">>, neg |-> FALSE, whole |-> 0, milli |-> 0],
      [text |-> <<"0", ".", "0", "0">>, neg |-> FALSE, whole |-> 0, milli |-> 0],
      [text |-> <<"-", "5">>, neg |-> TRUE, whole |-> 5, milli |-> 0],
      [text |-> <<"-", "0", ".", "0", "1">>, neg |-> TRUE, whole |-> 0, milli |-> 10],
      [text |-> <<"5", "0", "0">>, neg |-> FALSE, whole |-> 500, milli |-> 0],
      [text |-> <<"0", ".", "0", "1">>, neg |-> FALSE, whole |-> 0, milli |-> 10],
      [text |-> <<"0", ".", "0", "0", "1">>, neg |-> FALSE, whole |-> 0, milli |-> 1],
      [text |-> <<"4", "9", "9", ".", "9", "9", "5">>, neg |-> FALSE, whole |-> 499, milli |-> 995],
      [text |-> <<" ", "1", "5", "0", "0", ",", "5", "0", "cyr_r">>, neg |-> FALSE, whole |-> 1500, milli |-> 500],
      [text |-> <<"9", "9", "9", "9", "9", "9", "9", ".", "9", "9">>, neg |-> FALSE, whole |-> 9999999, milli |-> 990],
      [text |-> <<"a", "b", "c">>, neg |-> FALSE, whole |-> -1, milli |-> 0],
      [text |-> <<>>, neg |-> FALSE, whole |-> -1, milli |-> 0],
      [text |-> <<"1", ".", "2", ".", "3">>, neg |-> FALSE, whole |-> -1, milli |-> 0] }

IsDigit(c) == c \in {"0", "1", "2", "3", "4", "5", "6", "7", "8", "9"}

digit(c) ==
    CASE c = "0" -> 0 [] c = "1" -> 1 [] c = "2" -> 2 [] c = "3" -> 3
      [] c = "4" -> 4 [] c = "5" -> 5 [] c = "6" -> 6 [] c = "7" -> 7
      [] c = "8" -> 8 [] c = "9" -> 9

\* strip(), replace(',', '.'), replace(' ', ''), then the rouble sign and
\* the Cyrillic letter are dropped (after which 'руб' cannot occur) and
\* strip() again
clean_price(cs) ==
    LET dotted == [i \in DOMAIN cs |-> IF cs[i] = "," THEN "." ELSE cs[i]]
    IN  SelectSeq(strip(dotted), LAMBDA c : c \notin {" ", "rub_sign", "cyr_r"})

RECURSIVE number(_)
number(ds) ==
    IF ds = <<>> THEN 0 ELSE number(SubSeq(ds, 1, Len(ds) - 1)) * 10 + digit(ds[Len(ds)])

\* Decimal(cleaned) for the plain notation sign, digits, point, digits:
\* the sign, the whole part and the digits after the point, or
\* InvalidOperation
Decimal(cs) ==
    LET signed == cs # <<>> /\ cs[1] \in {"-", "+"}
        body == IF signed THEN Tail(cs) ELSE cs
        dots == {i \in DOMAIN body : body[i] = "."}
        dot == IF dots = {} THEN Len(body) + 1 ELSE CHOOSE i \in dots : TRUE
        ok == /\ Cardinality(dots) <= 1
              /\ \A i \in DOMAIN body : i \in dots \/ IsDigit(body[i])
              /\ Len(body) > Cardinality(dots)
    IN  IF ok
        THEN [ok |-> TRUE, neg |-> signed /\ cs[1] = "-",
              whole |-> number(SubSeq(body, 1, dot - 1)),
              frac |-> SubSeq(body, dot + 1, Len(body))]
        ELSE [ok |-> FALSE]

AllZero(ds) == \A i \in DOMAIN ds : ds[i] = "0"

\* price <= 0 or price > Decimal('10000000')
price_out_of_range(d) ==
    \/ d.neg
    \/ d.whole = 0 /\ AllZero(d.frac)
    \/ d.whole > 10000000
    \/ d.whole = 10000000 /\ ~AllZero(d.frac)

\* price.quantize(Decimal('0.01')), ROUND_HALF_EVEN: the price in
\* hundredths
quantize(d) ==
    LET f == d.frac \o <<"0", "0", "0">>
        h == d.whole * 100 + digit(f[1]) * 10 + digit(f[2])
        rest == SubSeq(f, 3, Len(f))
        up == \/ digit(rest[1]) > 5
              \/ digit(rest[1]) = 5 /\ ~AllZero(Tail(rest))
              \/ digit(rest[1]) = 5 /\ AllZero(Tail(rest)) /\ h % 2 = 1
    IN  IF up THEN h + 1 ELSE h

\* validate_price: the price in hundredths, or None
validate_price(price_str) ==
    LET d == Decimal(clean_price(price_str))
    IN  IF ~d.ok THEN NoneNum
        ELSE IF price_out_of_range(d) THEN NoneNum
        ELSE quantize(d)

call_validate_title(title) ==
    /\ Tick
    /\ lastOp' = [op |-> "validate_title", title |-> title, ret |-> validate_title(title)]
    /\ UNCHANGED <<ads, adSeq, reports, reportSeq, subs, sess, hist,
                 users, feedback, evt, search_results, today, fsm, user_last_request, now>>

call_validate_price(inp) ==
    /\ Tick
    /\ lastOp' = [op |-> "validate_price", inp |-> inp, ret |-> validate_price(inp.text)]
    /\ UNCHANGED <<ads, adSeq, reports, reportSeq, subs, sess, hist,
                 users, feedback, evt, search_results, today, fsm, user_last_request, now>>

NextValid ==
    \/ \E title \in TitleInputs : call_validate_title(title)
    \/ \E inp \in PriceInputs : call_validate_price(inp)

ValidSpec == Init /\ [][NextValid]_vars

\* a title of letters, with no blank to squeeze and no run of six
C28_PlainTitle(t) ==
    /\ \A i \in DOMAIN t : t[i] \in {"a", "b"}
    /\ \A i \in 1..(Len(t) - 1) : t[i] # t[i + 1]

\* C28: title validation accepts titles of exactly 3 and exactly 200
\* characters and rejects titles of 2 and 201 characters; price validation
\* accepts exactly 10,000,000, rejects every price above it, and rejects
\* zero and negative prices.
C28_Boundaries ==
    /\ (lastOp.op = "validate_title" /\ C28_PlainTitle(lastOp.title)) =>
          /\ Len(lastOp.title) \in {3, 200} => lastOp.ret = lastOp.title
          /\ Len(lastOp.title) \in {2, 201} => lastOp.ret = NoneStr
    /\ (lastOp.op = "validate_price" /\ lastOp.inp.whole >= 0) =>
          LET n == lastOp.inp
          IN  /\ (~n.neg /\ n.whole = 10000000 /\ n.milli = 0) =>
                    lastOp.ret = 1000000000
              /\ (~n.neg /\ (n.whole > 10000000
                               \/ (n.whole = 10000000 /\ n.milli > 0))) =>
                    lastOp.ret = NoneNum
              /\ (n.neg \/ (n.whole = 0 /\ n.milli = 0)) => lastOp.ret = NoneNum

\* the price 10 000 000 written with blanks and the rouble sign has been
\* accepted
C28_Witness ==
    /\ lastOp.op = "validate_price"
    /\ Len(lastOp.inp.text) = 12
    /\ lastOp.inp.whole = 10000000
    /\ lastOp.ret = 1000000000

---------------------------------------------------------------------------
(* Creating: handler confirm_ad_creation (bot/handlers/ad_create.py) and   *)
(* AdService.create, then AdService.get_by_id.  The price_per_day column   *)
(* is Numeric(10, 2): its values are counted in hundredths.                *)

MaxCreateOps == 3    \* handler calls started in one behaviour of CreateSpec

chr(d) ==
    CASE d = 0 -> "0" [] d = 1 -> "1" [] d = 2 -> "2" [] d = 3 -> "3"
      [] d = 4 -> "4" [] d = 5 -> "5" [] d = 6 -> "6" [] d = 7 -> "7"
      [] d = 8 -> "8" [] d = 9 -> "9"

RECURSIVE digits(_)
digits(n) == IF n < 10 THEN <<chr(n)>> ELSE Append(digits(n \div 10), chr(n % 10))

\* str(price) of a Decimal quantized to 0.01, given in hundredths
str_decimal(h) ==
    digits(h \div 100) \o <<".", chr((h \div 10) % 10), chr(h % 10)>>

\* the FSM data at the confirm step: process_title and process_price keep
\* only what the validators accept (a price that quantizes to 0.00 is
\* falsy and refused), the photo is optional
FsmData ==
    { [title |-> validate_title(t),
       description |-> D_text,
       price |-> str_decimal(validate_price(p.text)),
       location |-> L_msk,
       category |-> c,
       contact |-> "c1",
       photo_id |-> ph] :
        t \in {x \in TitleInputs : validate_title(x) # NoneStr},
        p \in {x \in PriceInputs : validate_price(x.text) \notin {NoneNum, 0}},
        c \in {"Tools", "Sport"},
        ph \in {None, "photo1"} }

\* a column that keeps whole roubles only
Numeric_10_0(d) ==
    LET f == d.frac \o <<"0">>
    IN  (d.whole + (IF digit(f[1]) >= 5 THEN 1 ELSE 0)) * 100

\* what a Numeric(10, 2) column keeps of a Decimal: the value rounded to
\* hundredths, half away from zero
Numeric_10_2(d) ==
    LET f == d.frac \o <<"0", "0", "0">>
    IN  d.whole * 100 + digit(f[1]) * 10 + digit(f[2])
          + (IF digit(f[3]) >= 5 THEN 1 ELSE 0)

\* confirm_ad_creation: AdService.create with the FSM data, then
\* state.clear()
confirm_ad_creation(u, data) ==
    /\ Tick
    /\ ops < MaxCreateOps
    /\ adSeq < MaxAds
    /\ adSeq' = adSeq + 1
    /\ LET args == [title |-> data.title,
                    description |-> data.description,
                    price_per_day |-> Decimal(data.price),
                    location |-> data.location,
                    category |-> data.category,
                    contact_info |-> data.contact,
                    photo_id |-> data.photo_id]
       IN  /\ ads' = [ads EXCEPT ![adSeq + 1] =
                        [owner_id |-> u,
                         title |-> args.title,
                         description |-> args.description,
                         price_per_day |-> Numeric_10_2(args.price_per_day),
                         location |-> args.location,
                         category |-> args.category,
                         contact_info |-> args.contact_info,
                         photo_id |-> args.photo_id,
                         status |-> PENDING,
                         rejection_reason |-> None,
                         views_count |-> 0,
                         created_at |-> adSeq + 1,
                         updated_at |-> today]]
           /\ lastOp' = [op |-> "confirm_ad_creation", ret |-> TRUE,
                         ad |-> adSeq + 1, submitted |-> args]
    /\ search_results' = state_clear(u)
    /\ UNCHANGED <<reports, reportSeq, subs, sess, hist,
                 users, feedback, evt, today, fsm, user_last_request, now>>

\* AdService.get_by_id: the row, or None
get_by_id(a) ==
    /\ Tick
    /\ ops < MaxCreateOps
    /\ lastOp' = [op |-> "get_by_id", ad |-> a, ret |-> ads[a]]
    /\ UNCHANGED <<ads, adSeq, reports, reportSeq, subs, sess, hist,
                 users, feedback, evt, search_results, today, fsm, user_last_request, now>>

NextCreate ==
    \/ \E u \in Owners, data \in FsmData : confirm_ad_creation(u, data)
    \/ \E a \in DOMAIN ads : get_by_id(a)

CreateSpec == Init /\ [][NextCreate]_vars

\* the Decimal d is exactly h hundredths
C29_SamePrice(h, d) ==
    LET f == d.frac \o <<"0", "0">>
    IN  /\ ~d.neg
        /\ h = d.whole * 100 + digit(f[1]) * 10 + digit(f[2])
        /\ AllZero(SubSeq(f, 3, Len(f)))

C29_ReadStep ==
    \A a \in DOMAIN ads :
        (lastOp.op = "confirm_ad_creation" /\ lastOp.ad = a /\ get_by_id(a)) =>
            LET ad == lastOp'.ret
                sub == lastOp.submitted
            IN  /\ ad # NoAd
                /\ ad.status = PENDING
                /\ ad.views_count = 0
                /\ ad.rejection_reason = None
                /\ ad.title = sub.title
                /\ ad.description = sub.description
                /\ C29_SamePrice(ad.price_per_day, sub.price_per_day)
                /\ ad.location = sub.location
                /\ ad.category = sub.category
                /\ ad.contact_info = sub.contact_info
                /\ ad.photo_id = sub.photo_id

\* C29: create followed by get_by_id returns an ad with status PENDING,
\* views_count 0, no rejection reason, and title, description, price,
\* location, category, contact and photo reference equal to the submitted
\* values.
C29_RoundTrip == [][C29_ReadStep]_vars

\* an ad with a photo and a price with kopecks has been created and read
\* back
C29_Witness ==
    /\ lastOp.op = "get_by_id"
    /\ lastOp.ret # NoAd
    /\ lastOp.ret.status = PENDING
    /\ lastOp.ret.views_count = 0
    /\ lastOp.ret.photo_id = "photo1"
    /\ lastOp.ret.price_per_day = 150050

---------------------------------------------------------------------------
(* Statistics: ModerationService.get_moderation_stats, next to the calls   *)
(* that write ads and reports and to the change of the calendar day        *)

MaxDays == 1         \* midnights in one behaviour
MaxStatsOps == 5     \* handler calls started in one behaviour of StatsSpec

\* the calendar day changes
midnight ==
    /\ today < MaxDays
    /\ today' = today + 1
    /\ UNCHANGED <<ads, adSeq, reports, reportSeq, subs, sess, hist, lastOp,
                 ops, users, feedback, evt, search_results, fsm, user_last_request, now>>

\* ModerationService.get_pending_count
get_pending_count == Cardinality({a \in DOMAIN ads : PendingAd(a)})

\* ModerationService.get_pending_reports_count
get_pending_reports_count == Cardinality({r \in DOMAIN reports : PendingReport(r)})

\* approved_today_query: ACTIVE ads with updated_at >= today_start
approved_today_query ==
    Cardinality({a \in DOMAIN ads :
                    /\ ads[a] # NoAd
                    /\ ads[a].status = ACTIVE
                    /\ ads[a].updated_at >= today})

get_moderation_stats ==
    /\ Tick
    /\ lastOp' = [op |-> "get_moderation_stats",
                  ret |-> [pending_ads |-> get_pending_count,
                           pending_reports |-> get_pending_reports_count,
                           approved_today |-> approved_today_query]]
    /\ UNCHANGED <<ads, adSeq, reports, reportSeq, subs, sess, hist,
                 users, feedback, evt, search_results, today, fsm, user_last_request, now>>

StatsBudget == ops < MaxStatsOps

NextStats ==
    \/ StatsBudget /\ \E u \in Owners, inp \in AdInputs : create(u, inp)
    \/ StatsBudget /\ \E p \in Procs, m \in admin_id_list, a \in AdIds :
          approve_ad_select(p, m, a)
    \/ \E p \in Procs : approve_ad_commit(p)
    \/ \E p \in Procs : notify_ad_approved(p)
    \/ \E p \in Procs : notify_new_ad(p)
    \/ StatsBudget /\ \E p \in Procs, u \in Users, a \in AdIds : view_ad_select(p, u, a)
    \/ \E p \in Procs : increment_views(p)
    \/ StatsBudget /\ \E a \in AdIds, u \in Owners, st \in {RENTED, CLOSED} :
          set_status(a, u, st)
    \/ StatsBudget /\ \E a \in AdIds, u \in Owners : reactivate(a, u)
    \/ StatsBudget /\ \E a \in AdIds, u \in Callers : create_report(a, u, "spam", None)
    \/ StatsBudget /\ \E p \in Procs, m \in admin_id_list, r \in ReportIds :
          review_report_select(p, m, r, "dismiss", None)
    \/ \E p \in Procs : review_report_commit(p)
    \/ midnight
    \/ StatsBudget /\ get_moderation_stats

SerialNextStats == NextStats /\ SerialStep

StatsSpec == Init /\ [][SerialNextStats]_vars

\* the ads approved since the start of the current day
C30_ApprovedToday == {a \in DOMAIN ads : ads[a] # NoAd /\ hist[a].approved_on = today}

C30_StatsStep ==
    get_moderation_stats =>
        /\ lastOp'.ret.pending_ads = Cardinality({a \in DOMAIN ads : PendingAd(a)})
        /\ lastOp'.ret.pending_reports =
              Cardinality({r \in DOMAIN reports : PendingReport(r)})
        /\ lastOp'.ret.approved_today = Cardinality(C30_ApprovedToday)

\* C30: get_moderation_stats reports pending_ads equal to the number of
\* PENDING ads, pending_reports equal to the number of PENDING reports, and
\* approved_today equal to the number of ads approved (PENDING->ACTIVE)
\* since the start of the current day: an ad approved on an earlier day is
\* not counted even if it is viewed or reactivated today.
C30_Stats == [][C30_StatsStep]_vars

---------------------------------------------------------------------------
(* Creating a subscription: the conversation of                            *)
(* bot/handlers/notifications.py from start_create_subscription to         *)
(* process_subscription_max_price, which calls SubscriptionService.create  *)

MaxSubFlowOps == 6   \* handler calls started in one behaviour of SubFlowSpec

NoSub == [absent |-> "subscription"]

Skip == <<"/", "s", "k", "i", "p">>

\* message.text at the keyword and location steps (NoneStr: a message
\* without text)
SubTexts == {Skip, NoneStr, <<"D", "r">>, <<" ", "M", " ">>, <<" ">>}

AD_CATEGORIES == {"Tools", "Sport"}

\* message.text at the category step
CategoryTexts == {"/skip", "Tools", "zzz"}

\* message.text at the price step
MaxPriceTexts ==
    {Skip, <<"5", "0", "0">>, <<"1", "5", "0", "0", ",", "5">>,
     <<"0", ".", "0", "0", "1">>, <<"a", "b", "c">>}

SubFlowUsers == {1, 2}

InitSubFlow ==
    /\ ads = [a \in AdIds |-> NoAd]
    /\ adSeq = 0
    /\ reports = [r \in ReportIds |-> NoReport]
    /\ reportSeq = 0
    /\ subs = [s \in SubIds |-> NoSub]
    /\ sess = [p \in Procs |-> Idle]
    /\ hist = [a \in AdIds |-> NoHist]
    /\ lastOp = [op |-> "init"]
    /\ ops = 0
    /\ users = [u \in Users |-> UserRow(u)]
    /\ feedback = [f \in FeedbackIds |-> NoFeedback]
    /\ evt = NoEvent
    /\ search_results = [u \in Users |-> <<>>]
    /\ today = 0
    /\ fsm = [u \in Users |-> NoFsm]
    /\ user_last_request = NoRequests
    /\ now = StartTime

SubFlowFrame ==
    UNCHANGED <<ads, adSeq, reports, reportSeq, sess, hist, users, feedback,
                evt, search_results, today, user_last_request, now>>

\* callback sub:create: the state is set and the four data keys are reset
start_create_subscription(u) ==
    /\ Tick
    /\ fsm' = [fsm EXCEPT ![u] =
                 [@ EXCEPT !.state = "select_type",
                           !.sub_keywords = NoneStr, !.sub_category = None,
                           !.sub_location = NoneStr]]
    /\ lastOp' = [op |-> "start_create_subscription", user |-> u]
    /\ UNCHANGED subs
    /\ SubFlowFrame

\* a message without text: message.text.strip() raises, the state stays
process_subscription_keywords(u, text) ==
    /\ fsm[u].state = "select_type"
    /\ Tick
    /\ fsm' = IF text = NoneStr THEN fsm
              ELSE [fsm EXCEPT ![u] =
                      [@ EXCEPT !.state = "waiting_for_category",
                                !.sub_keywords =
                                    IF text # Skip THEN strip(text) ELSE @]]
    /\ lastOp' = [op |-> "process_subscription_keywords", user |-> u]
    /\ UNCHANGED subs
    /\ SubFlowFrame

process_subscription_category(u, text) ==
    /\ fsm[u].state = "waiting_for_category"
    /\ Tick
    /\ fsm' = IF text = "/skip"
              THEN [fsm EXCEPT ![u].state = "waiting_for_location"]
              ELSE IF text \in AD_CATEGORIES
              THEN [fsm EXCEPT ![u].state = "waiting_for_location",
                               ![u].sub_category = text]
              ELSE fsm
    /\ lastOp' = [op |-> "process_subscription_category", user |-> u]
    /\ UNCHANGED subs
    /\ SubFlowFrame

process_subscription_location(u, text) ==
    /\ fsm[u].state = "waiting_for_location"
    /\ Tick
    /\ fsm' = IF text = NoneStr THEN fsm
              ELSE [fsm EXCEPT ![u] =
                      [@ EXCEPT !.state = "waiting_for_max_price",
                                !.sub_location =
                                    IF text # Skip THEN strip(text) ELSE @]]
    /\ lastOp' = [op |-> "process_subscription_location", user |-> u]
    /\ UNCHANGED subs
    /\ SubFlowFrame

\* str(max_price) of the float: the digits without trailing zeros, with at
\* least one after the point
str_float(h) ==
    digits(h \div 100) \o <<".">> \o
        (IF h % 10 = 0 THEN <<chr((h \div 10) % 10)>>
         ELSE <<chr((h \div 10) % 10), chr(h % 10)>>)

\* a test that every data passes
any_criterion_unchecked(data, max_price) == TRUE

\* any([sub_keywords, sub_category, sub_location, max_price])
any_criterion(data, max_price) ==
    \/ truthy_str(data.sub_keywords)
    \/ truthy_tok(data.sub_category)
    \/ truthy_str(data.sub_location)
    \/ truthy_num(max_price)

\* the price step: validate_price unless skipped, the test for one
\* criterion, SubscriptionService.create (max_price 0 is stored as NULL)
\* and state.clear()
process_subscription_max_price(u, text) ==
    /\ fsm[u].state = "waiting_for_max_price"
    /\ Tick
    /\ LET max_price == IF text = Skip THEN NoneNum ELSE validate_price(text)
           data == fsm[u]
           free == {s \in SubIds : subs[s] = NoSub}
           s == CHOOSE x \in free : \A y \in free : x <= y
       IN  IF text # Skip /\ max_price = NoneNum
           THEN /\ lastOp' = [op |-> "process_subscription_max_price",
                              user |-> u, ret |-> "invalid"]
                /\ UNCHANGED <<subs, fsm>>
           ELSE IF ~any_criterion(data, max_price)
           THEN /\ lastOp' = [op |-> "process_subscription_max_price",
                              user |-> u, ret |-> "no criterion"]
                /\ fsm' = [fsm EXCEPT ![u] = NoFsm]
                /\ UNCHANGED subs
           ELSE /\ free # {}
                /\ subs' = [subs EXCEPT ![s] =
                              [user_id |-> u,
                               keywords |-> data.sub_keywords,
                               category |-> data.sub_category,
                               location |-> data.sub_location,
                               max_price |->
                                   IF truthy_num(max_price)
                                   THEN Numeric_10_2(Decimal(str_float(max_price)))
                                   ELSE NoneNum,
                               is_active |-> TRUE]]
                /\ fsm' = [fsm EXCEPT ![u] = NoFsm]
                /\ lastOp' = [op |-> "process_subscription_max_price",
                              user |-> u, ret |-> "created", sub |-> s]
    /\ SubFlowFrame

SubFlowBudget == ops < MaxSubFlowOps

NextSubFlow ==
    \/ SubFlowBudget /\ \E u \in SubFlowUsers : start_create_subscription(u)
    \/ SubFlowBudget /\ \E u \in SubFlowUsers, text \in SubTexts :
          process_subscription_keywords(u, text)
    \/ SubFlowBudget /\ \E u \in SubFlowUsers, text \in CategoryTexts :
          process_subscription_category(u, text)
    \/ SubFlowBudget /\ \E u \in SubFlowUsers, text \in SubTexts :
          process_subscription_location(u, text)
    \/ SubFlowBudget /\ \E u \in SubFlowUsers, text \in MaxPriceTexts :
          process_subscription_max_price(u, text)

SubFlowSpec == InitSubFlow /\ [][NextSubFlow]_vars

C31_HasCriterion ==
    \A s \in DOMAIN subs :
        subs[s] # NoSub =>
            \/ truthy_str(subs[s].keywords)
            \/ subs[s].category # None
            \/ truthy_str(subs[s].location)
            \/ subs[s].max_price > 0

C31_AllSkippedStep ==
    \A u \in SubFlowUsers :
        (/\ fsm[u].sub_keywords = NoneStr
         /\ fsm[u].sub_category = None
         /\ fsm[u].sub_location = NoneStr
         /\ process_subscription_max_price(u, Skip)) =>
            /\ subs' = subs
            /\ fsm'[u] = NoFsm

\* C31: every subscription created through the conversational flow has at
\* least one of keyword, category, location, max price set; when all four
\* steps are skipped no subscription is created and the flow ends.
C31_AtLeastOneCriterion == []C31_HasCriterion /\ [][C31_AllSkippedStep]_vars

\* no criterion was given and the flow has ended without a
\* subscription
C31_Witness ==
    /\ lastOp.op = "process_subscription_max_price"
    /\ lastOp.ret = "no criterion"
    /\ fsm[lastOp.user] = NoFsm
    /\ \A s \in DOMAIN subs : subs[s] = NoSub

---------------------------------------------------------------------------
(* Reporting an ad: the conversation of bot/handlers/feedback.py from      *)
(* start_report to process_report_description, which calls                 *)
(* ModerationService.create_report, next to AdService.delete_ad            *)

MaxFlowReports == 2      \* ids the reports table may allocate in ReportFlowSpec
MaxReportFlowOps == 7    \* handler calls started in one behaviour of ReportFlowSpec

ReportFlowIds == 1..MaxFlowReports

\* the second part of the callback data report:<reason>:<ad id>
ReasonStrs == {"cancel", "spam", "zzz"}

\* the values of the enum ReportReason
ReportReason == {"spam", "fraud"}

\* message.text at the description step
DescriptionTexts == {"/skip", "note"}

\* the ads exist, owned by user 1; no report yet
InitReportFlow ==
    /\ ads = [a \in AdIds |-> AdRow(1, CHOOSE inp \in AdInputs : TRUE)]
    /\ adSeq = MaxAds
    /\ reports = [r \in ReportFlowIds |-> NoReport]
    /\ reportSeq = 0
    /\ subs = [s \in SubIds |-> SubTable(s)]
    /\ sess = [p \in Procs |-> Idle]
    /\ hist = [a \in AdIds |-> NoHist]
    /\ lastOp = [op |-> "init"]
    /\ ops = 0
    /\ users = [u \in Users |-> UserRow(u)]
    /\ feedback = [f \in FeedbackIds |-> NoFeedback]
    /\ evt = NoEvent
    /\ search_results = [u \in Users |-> <<>>]
    /\ today = 0
    /\ fsm = [u \in Users |-> NoFsm]
    /\ user_last_request = NoRequests
    /\ now = StartTime

ReportFlowFrame ==
    UNCHANGED <<ads, adSeq, subs, sess, hist, users, feedback, evt,
                search_results, today, user_last_request, now>>

\* callback ad:report:<ad id>.  The handler takes the ad id from the
\* callback data and looks neither at the ad nor at its owner: the button
\* is left out of the keyboard built for the owner, but the message that
\* carries it for another viewer is pressed by whoever sees it.
start_report(u, a) ==
    /\ Tick
    /\ fsm' = [fsm EXCEPT ![u].state = "select_reason", ![u].report_ad_id = a]
    /\ lastOp' = [op |-> "start_report", user |-> u, ad |-> a]
    /\ UNCHANGED <<reports, reportSeq>>
    /\ ReportFlowFrame

select_report_reason(u, reason_str) ==
    /\ fsm[u].state = "select_reason"
    /\ Tick
    /\ fsm' = IF reason_str = "cancel" THEN [fsm EXCEPT ![u] = NoFsm]
              ELSE IF reason_str \notin ReportReason THEN fsm
              ELSE [fsm EXCEPT ![u].state = "waiting_for_description",
                               ![u].report_reason = reason_str]
    /\ lastOp' = [op |-> "select_report_reason", user |-> u]
    /\ UNCHANGED <<reports, reportSeq>>
    /\ ReportFlowFrame

\* an INSERT that does not look for the ad row
ad_id_accepted_unchecked(a) == TRUE

\* the foreign key reports.ad_id -> ads.id at the INSERT
ad_id_accepted(a) == ads[a] # NoAd

\* process_report_description: create_report with the data of the flow,
\* then state.clear().  The INSERT of a report on an ad that is gone
\* raises IntegrityError and the handler ends there.
process_report_description(u, text) ==
    /\ fsm[u].state = "waiting_for_description"
    /\ Tick
    /\ reportSeq < MaxFlowReports
    /\ reportSeq' = reportSeq + 1
    /\ LET a == fsm[u].report_ad_id
       IN  IF ad_id_accepted(a)
           THEN /\ reports' = [reports EXCEPT ![reportSeq + 1] =
                                 [ad_id |-> a,
                                  reporter_id |-> u,
                                  reason |-> fsm[u].report_reason,
                                  description |->
                                      IF text = "/skip" THEN None ELSE text,
                                  status |-> R_PENDING,
                                  reviewed_by |-> None,
                                  reviewed_at |-> None,
                                  admin_comment |-> None]]
                /\ fsm' = [fsm EXCEPT ![u] = NoFsm]
                /\ lastOp' = [op |-> "process_report_description", user |-> u,
                              ret |-> TRUE, ad |-> a, report |-> reportSeq + 1]
           ELSE /\ lastOp' = [op |-> "process_report_description", user |-> u,
                              ret |-> FALSE, ad |-> a]
                /\ UNCHANGED <<reports, fsm>>
    /\ ReportFlowFrame

ReportFlowBudget == ops < MaxReportFlowOps

NextReportFlow ==
    \/ ReportFlowBudget /\ \E u \in Callers, a \in AdIds : start_report(u, a)
    \/ ReportFlowBudget /\ \E u \in Callers, rs \in ReasonStrs :
          select_report_reason(u, rs)
    \/ ReportFlowBudget /\ \E u \in Callers, text \in DescriptionTexts :
          process_report_description(u, text)
    \/ ReportFlowBudget /\ \E a \in AdIds, u \in Callers : delete_ad(a, u)

ReportFlowSpec == InitReportFlow /\ [][NextReportFlow]_vars

\* C32: in every reachable state, the reporter of every report is a user
\* other than the owner of the reported ad: no sequence of report-flow
\* events lets an owner file a report against their own ad.
C32_ReporterIsNotOwner ==
    \A r \in DOMAIN reports :
        (reports[r] # NoReport /\ ads[reports[r].ad_id] # NoAd) =>
            reports[r].reporter_id # ads[reports[r].ad_id].owner_id

C33_ReportsHaveAds ==
    \A r \in DOMAIN reports :
        reports[r] # NoReport => ads[reports[r].ad_id] # NoAd

C33_CreateStep ==
    \A u \in Callers, text \in DescriptionTexts :
        (/\ fsm[u].state = "waiting_for_description"
         /\ ads[fsm[u].report_ad_id] # NoAd
         /\ process_report_description(u, text)) =>
            /\ lastOp'.ret
            /\ reports[lastOp'.report] = NoReport
            /\ reports'[lastOp'.report].status = R_PENDING
            /\ reports'[lastOp'.report].ad_id = fsm[u].report_ad_id
            /\ reports'[lastOp'.report].reporter_id = u
            /\ \A r \in DOMAIN reports : r # lastOp'.report => reports'[r] = reports[r]

\* C33: create_report succeeds whenever the referenced ad exists at the
\* time of the call, creating a new PENDING report, including when the
\* same reporter already has reports on the same ad; and in every
\* reachable state every report references an existing ad, also when the
\* ad is deleted concurrently between the start of the report flow and the
\* report's creation.
C33_CreateReport == []C33_ReportsHaveAds /\ [][C33_CreateStep]_vars

\* a reporter's second report on the same ad has been created
C33_Witness ==
    /\ lastOp.op = "process_report_description"
    /\ lastOp.ret
    /\ \E r \in DOMAIN reports :
          /\ r # lastOp.report
          /\ reports[r] # NoReport
          /\ reports[r].ad_id = lastOp.ad
          /\ reports[r].reporter_id = lastOp.user

---------------------------------------------------------------------------
(* Skipping in the moderation queue: handler skip_moderation               *)
(* (bot/handlers/moderation.py) and show_next_in_queue                     *)

MaxSkipOps == 3      \* handler calls started in one behaviour of SkipSpec

\* callback mod:skip:<ad id>, a the ad of the message whose button was
\* pressed: show_next_in_queue fetches the queue again and presents its
\* head; the ad id of the callback is not read
skip_moderation(m, a) ==
    /\ Tick
    /\ m \in admin_id_list
    /\ search_results' = AfterPresented(TRUE, m)
    /\ lastOp' = [op |-> "skip_moderation", skipped |-> a, then |-> Presented(TRUE)]
    /\ UNCHANGED <<ads, adSeq, reports, reportSeq, subs, sess, hist,
                 users, feedback, evt, today, fsm, user_last_request, now>>

SkipBudget == ops < MaxSkipOps

NextSkip ==
    \/ SkipBudget /\ \E m \in admin_id_list : show_moderation_queue(m)
    \/ SkipBudget /\ \E m \in admin_id_list, a \in QueueAdIds : skip_moderation(m, a)

SkipSpec == InitQueue /\ [][NextSkip]_vars

C34_SkipStep ==
    \A m \in admin_id_list, a \in QueueAdIds :
        (/\ lastOp.op \in {"show_moderation_queue", "skip_moderation"}
         /\ lastOp.then.shown = a
         /\ Len(get_pending_ads) >= 2
         /\ skip_moderation(m, a)) =>
            lastOp'.then.shown # a

\* C34: when a moderator skips the ad currently shown and the moderation
\* queue holds at least two PENDING ads, the ad presented next is a
\* different ad from the one skipped (and so repeated skips eventually
\* present every PENDING ad).
C34_SkipMovesOn == [][C34_SkipStep]_vars

---------------------------------------------------------------------------
(* ThrottlingMiddleware (bot/middlewares/database.py), registered for      *)
(* messages with rate_limit=0.3; times are counted in tenths of a second   *)

MaxTime == 5         \* tenths of a second the clock runs in one behaviour
MaxThrottleOps == 5  \* messages in one behaviour of ThrottleSpec

rate_limit == 3

ThrottleUsers == {1, 2}

\* time.time() moves on
clock ==
    /\ now < StartTime + MaxTime
    /\ now' = now + 1
    /\ UNCHANGED <<ads, adSeq, reports, reportSeq, subs, sess, hist, lastOp,
                 ops, users, feedback, evt, search_results, today, fsm,
                 user_last_request>>

\* a middleware that notes the time of every message, dropped or not
ThrottlingMiddleware_notes_every_message(u) ==
    /\ Tick
    /\ user_last_request' = [user_last_request EXCEPT ![u] = now]
    /\ lastOp' = [op |-> "message", user |-> u, at |-> now,
                  handled |-> ~(now - user_last_request[u] < rate_limit)]
    /\ UNCHANGED <<ads, adSeq, reports, reportSeq, subs, sess, hist,
                 users, feedback, evt, search_results, today, fsm, now>>

\* ThrottlingMiddleware.__call__ for a message of user u: too soon after
\* the last request on record, it returns without calling the handler;
\* otherwise it records the time and calls the handler
ThrottlingMiddleware(u) ==
    /\ Tick
    /\ LET current_time == now
           last_request == user_last_request[u]
       IN  IF current_time - last_request < rate_limit
           THEN /\ lastOp' = [op |-> "message", user |-> u, at |-> now,
                              handled |-> FALSE]
                /\ UNCHANGED user_last_request
           ELSE /\ user_last_request' = [user_last_request EXCEPT ![u] = current_time]
                /\ lastOp' = [op |-> "message", user |-> u, at |-> now,
                              handled |-> TRUE]
    /\ UNCHANGED <<ads, adSeq, reports, reportSeq, subs, sess, hist,
                 users, feedback, evt, search_results, today, fsm, now>>

NextThrottle ==
    \/ clock
    \/ ops < MaxThrottleOps /\ \E u \in ThrottleUsers : ThrottlingMiddleware(u)

ThrottleSpec == Init /\ [][NextThrottle]_vars

\* the record holds, for each user, the arrival time of the last message
\* that reached a handler (0: none yet)
C35_MessageStep ==
    \A u \in ThrottleUsers :
        ThrottlingMiddleware(u) =>
            /\ lastOp'.handled <=> now - user_last_request[u] >= rate_limit
            /\ lastOp'.handled => user_last_request'[u] = now
            /\ ~lastOp'.handled => user_last_request'[u] = user_last_request[u]
            /\ \A v \in Users \ {u} : user_last_request'[v] = user_last_request[v]

\* C35: for any two messages of the same user that reach a handler, their
\* arrival times differ by at least rate_limit; a message arriving sooner
\* after the last accepted one is dropped without invoking a handler and
\* without moving the user's last-accepted time; messages of different
\* users never throttle each other.
C35_MinimumInterval == [][C35_MessageStep]_vars

\* a message of a user was dropped while the other user's message, at the
\* same time, had just been handled
C35_Witness ==
    /\ lastOp.op = "message"
    /\ ~lastOp.handled
    /\ \E v \in ThrottleUsers :
          v # lastOp.user /\ user_last_request[v] = lastOp.at
    /\ user_last_request[lastOp.user] > 0
    /\ user_last_request[lastOp.user] < lastOp.at

---------------------------------------------------------------------------
(* Moderated content *)

\* C36: no ad is ever ACTIVE with content no moderator approved: for every
\* ad in status ACTIVE, its title, description, price, location, category,
\* contact and photo are equal to their values at the ad's most recent
\* PENDING->ACTIVE approval, after any sequence of edit, approve, reject,
\* set_status, reactivate and report-review operations.
C36_ActiveIsApproved ==
    \A a \in DOMAIN ads :
        (ads[a] # NoAd /\ ads[a].status = ACTIVE) =>
            Content(ads[a]) = hist[a].content

---------------------------------------------------------------------------
(* Administrators and bans *)

\* C37: no administrator is ever banned: in every state reachable through
\* /ban and /unban commands and user resolution, no user record has both
\* is_admin and is_banned true, and every user who passes the admin filter
\* (external id in the allow-list) has is_banned false.
C37_NoAdminBanned ==
    \A r \in DOMAIN users :
        users[r] # NoUser =>
            /\ ~(users[r].is_admin /\ users[r].is_banned)
            /\ users[r].telegram_id \in admin_id_list => ~users[r].is_banned

\* /ban was sent for an administrator and refused, while another user is
\* banned
C37_Witness ==
    /\ lastOp.op = "ban_user"
    /\ ~lastOp.ret
    /\ users[lastOp.target] # NoUser
    /\ users[lastOp.target].is_admin
    /\ ~users[lastOp.target].is_banned
    /\ \E r \in DOMAIN users : users[r] # NoUser /\ users[r].is_banned

---------------------------------------------------------------------------
(* Fan-out only on approval *)

\* every fan-out of an ad belongs to an approve_ad call that wrote the ad
\* ACTIVE, and no such call has more than one
C38_OnePerApproval == \A a \in AdIds : hist[a].fanouts <= hist[a].approved

\* a reactivate call changes no notification state and starts no handler
\* step; a fan-out runs only as the last step of the approve handler, for
\* the ad that handler's approve_ad returned, and only such a step counts
C38_FanoutSteps ==
    /\ lastOp'.op = "reactivate" => hist' = hist /\ sess' = sess
    /\ lastOp'.op = "notify_new_ad" =>
          \E p \in Procs :
             /\ sess[p].pc = "fanout"
             /\ sess[p].op = "approve_ad"
             /\ sess[p].ad = lastOp'.ad
             /\ sess'[p] = Idle
             /\ hist' = Bump(lastOp'.ad, "fanouts")
    /\ \A a \in AdIds :
          hist'[a].fanouts # hist[a].fanouts => lastOp'.op = "notify_new_ad"

\* C38: the new-ad fan-out to subscribers happens only as part of a
\* moderator's approval of a PENDING ad: an ad that becomes ACTIVE through
\* reactivate (from RENTED or CLOSED) triggers no subscriber notification,
\* and each approval of an ad triggers at most one fan-out.
C38_FanoutOnlyOnApproval == []C38_OnePerApproval /\ [][C38_FanoutSteps]_vars

\* an ad that was approved and announced once has been rented or closed
\* and has just been reactivated
C38_Witness ==
    /\ lastOp.op = "reactivate"
    /\ lastOp.ret
    /\ ads[lastOp.ad] # NoAd
    /\ ads[lastOp.ad].status = ACTIVE
    /\ hist[lastOp.ad].approved = 1
    /\ hist[lastOp.ad].fanouts = 1

---------------------------------------------------------------------------
(* Toggling a subscription from two devices *)

MaxToggleOps == 4
ToggleUsers == {1, 2}

\* SELECT ... WHERE id = s AND user_id = u; no row: return False
toggle_subscription_select(p, s, u) ==
    /\ FreeSlot(p)
    /\ ops' = ops + 1
    /\ IF subs[s].user_id = u
       THEN /\ sess' = [sess EXCEPT ![p] =
                          [pc |-> "commit", op |-> "toggle_subscription",
                           actor |-> u, sub |-> s, snap |-> subs[s]]]
            /\ lastOp' = [op |-> "toggle_subscription_select", ret |-> TRUE,
                          sub |-> s, user |-> u]
       ELSE /\ sess' = sess
            /\ lastOp' = [op |-> "toggle_subscription", ret |-> FALSE,
                          sub |-> s, user |-> u]
    /\ UNCHANGED <<ads, adSeq, reports, reportSeq, subs, hist,
                 users, feedback, evt,
                 search_results, today, fsm, user_last_request, now>>

\* UPDATE subscriptions SET is_active = (not sub.is_active) WHERE id = s,
\* with sub the row as the SELECT loaded it; commit; return True
toggle_subscription_commit(p) ==
    /\ sess[p].pc = "commit"
    /\ sess[p].op = "toggle_subscription"
    /\ subs' = [subs EXCEPT ![sess[p].sub].is_active = ~sess[p].snap.is_active]
    /\ sess' = [sess EXCEPT ![p] = Idle]
    /\ lastOp' = [op |-> "toggle_subscription", ret |-> TRUE,
                  sub |-> sess[p].sub, user |-> sess[p].actor]
    /\ UNCHANGED <<ads, adSeq, reports, reportSeq, hist, ops,
                 users, feedback, evt,
                 search_results, today, fsm, user_last_request, now>>

NextToggle ==
    \/ ops < MaxToggleOps /\ \E p \in Procs, s \in SubIds, u \in ToggleUsers :
          toggle_subscription_select(p, s, u)
    \/ \E p \in Procs : toggle_subscription_commit(p)

ToggleSpec == Init /\ [][NextToggle]_vars

\* a finished toggle_subscription call returns true exactly for the owner;
\* a call that returns false changes no subscription, and one that returns
\* true flips is_active of its subscription and changes nothing else
C39_ToggleStep ==
    lastOp'.op = "toggle_subscription" =>
        /\ lastOp'.ret = (subs[lastOp'.sub].user_id = lastOp'.user)
        /\ subs' = IF lastOp'.ret
                   THEN [subs EXCEPT ![lastOp'.sub].is_active = ~subs[lastOp'.sub].is_active]
                   ELSE subs

\* C39: toggle_subscription by a user who does not own the subscription
\* returns false and leaves is_active unchanged; by the owner it flips
\* is_active, so that two toggles, one after the other or concurrent (two
\* devices), leave is_active at its original value; no toggle changes any
\* criterion of the subscription.
C39_ToggleFlips == [][C39_ToggleStep]_vars

---------------------------------------------------------------------------
(* AdService.approve / reject beside ModerationService.approve_ad /        *)
(* reject_ad, in serial executions                                         *)

\* the UPDATE of approve without its WHERE status = PENDING
approve_update_any_status(a) ==
    IF ads[a] # NoAd
    THEN [rowcount |-> 1,
          ads |-> [ads EXCEPT ![a].status = ACTIVE, ![a].updated_at = today]]
    ELSE [rowcount |-> 0, ads |-> ads]

\* UPDATE ads SET status = ACTIVE WHERE id = a AND status = PENDING: the
\* rows it changes and the table it leaves
approve_update(a) ==
    IF PendingAd(a)
    THEN [rowcount |-> 1,
          ads |-> [ads EXCEPT ![a].status = ACTIVE, ![a].updated_at = today]]
    ELSE [rowcount |-> 0, ads |-> ads]

\* UPDATE ads SET status = REJECTED, rejection_reason = reason WHERE id = a
\* AND status = PENDING
reject_update(a, reason) ==
    IF PendingAd(a)
    THEN [rowcount |-> 1,
          ads |-> [ads EXCEPT ![a].status = REJECTED,
                              ![a].rejection_reason = reason,
                              ![a].updated_at = today]]
    ELSE [rowcount |-> 0, ads |-> ads]

\* AdService.approve: execute, commit, return rowcount > 0
approve(a) ==
    /\ Tick
    /\ ads' = approve_update(a).ads
    /\ hist' = IF approve_update(a).rowcount > 0 THEN Approved(a) ELSE hist
    /\ lastOp' = Result("approve", approve_update(a).rowcount > 0, a)
    /\ UNCHANGED <<adSeq, reports, reportSeq, subs, sess,
                 users, feedback, evt,
                 search_results, today, fsm, user_last_request, now>>

\* AdService.reject
reject(a, reason) ==
    /\ Tick
    /\ ads' = reject_update(a, reason).ads
    /\ lastOp' = Result("reject", reject_update(a, reason).rowcount > 0, a)
    /\ UNCHANGED <<adSeq, reports, reportSeq, subs, sess, hist,
                 users, feedback, evt,
                 search_results, today, fsm, user_last_request, now>>

NextEquiv ==
    \/ Next
    \/ \E a \in AdIds : approve(a)
    \/ \E a \in AdIds, rs \in Reasons : reject(a, rs)

SerialNextEquiv == NextEquiv /\ SerialStep

EquivSpec == Init /\ [][SerialNextEquiv]_vars

\* what the claim compares: every ad's status and rejection_reason
C40_AdState(table) ==
    [a \in DOMAIN table |->
        IF table[a] = NoAd THEN NoAd
        ELSE [status |-> table[a].status,
              rejection_reason |-> table[a].rejection_reason]]

\* each step of a ModerationService call, set against what the AdService
\* call with the same arguments does from the state the call started in
\* (in a serial execution the state its SELECT has read)
C40_Step ==
    /\ \A p \in Procs, m \in Users, a \in AdIds :
          approve_ad_select(p, m, a) =>
             /\ (lastOp'.op = "approve_ad") = (approve_update(a).rowcount = 0)
             /\ (lastOp'.op = "approve_ad") = ~PendingAd(a)
             /\ lastOp'.op = "approve_ad" => ads' = ads /\ approve_update(a).ads = ads
    /\ \A p \in Procs : approve_ad_commit(p) =>
          /\ lastOp'.ret = "ad"
          /\ approve_update(sess[p].ad).rowcount > 0
          /\ C40_AdState(ads') = C40_AdState(approve_update(sess[p].ad).ads)
    /\ \A p \in Procs, m \in Users, a \in AdIds, rs \in Reasons :
          reject_ad_select(p, m, a, rs) =>
             /\ (lastOp'.op = "reject_ad") = (reject_update(a, rs).rowcount = 0)
             /\ (lastOp'.op = "reject_ad") = ~PendingAd(a)
             /\ lastOp'.op = "reject_ad" => ads' = ads /\ reject_update(a, rs).ads = ads
    /\ \A p \in Procs : reject_ad_commit(p) =>
          /\ lastOp'.ret = "ad"
          /\ reject_update(sess[p].ad, sess[p].reason).rowcount > 0
          /\ C40_AdState(ads') =
                C40_AdState(reject_update(sess[p].ad, sess[p].reason).ads)
    /\ \A a \in AdIds : approve(a) =>
          /\ lastOp'.ret = PendingAd(a)
          /\ ~lastOp'.ret => ads' = ads
    /\ \A a \in AdIds, rs \in Reasons : reject(a, rs) =>
          /\ lastOp'.ret = PendingAd(a)
          /\ ~lastOp'.ret => ads' = ads

\* C40: in sequential executions ModerationService.approve_ad / reject_ad
\* and AdService.approve / reject are equivalent on ad state: from the same
\* ad state both succeed exactly when the ad exists and is PENDING, and
\* both leave the same status and rejection_reason; in all other cases
\* both report failure and change nothing.
C40_SameOnAdState == [][C40_Step]_vars

\* an ad approved through ModerationService.approve_ad and edited has just
\* been approved through AdService.approve
C40_Witness ==
    /\ lastOp.op = "approve"
    /\ lastOp.ret
    /\ ads[lastOp.ad].status = ACTIVE
    /\ hist[lastOp.ad].approved = 2
    /\ hist[lastOp.ad].noteApproved = 1

====
